---- MODULE Spec2Model ----
(***************************************************************************)
(* Model of the BeyondChats scraper pipeline (scraper/src): the search     *)
(* filter of GoogleSearchService, the retry loop of LLMEnhancerService,    *)
(* the batch loops of BeyondChatsScraper and ApiService, the enhancement   *)
(* loop of index.ts, the citation formatting of LLMEnhancerService, the    *)
(* page scrapers, the BrowserService lifecycle and main.                   *)
(*                                                                         *)
(* Strings that the code inspects character by character (URLs, path       *)
(* markers) are sequences of one-character strings, so that toLowerCase    *)
(* and includes are computed, not assumed.  Messages that the code only    *)
(* passes around or tests for emptiness are TLA+ strings.                  *)
(***************************************************************************)
EXTENDS Integers, Sequences, FiniteSets, TLC

VARIABLES
  \* GoogleSearchService.searchAndFilter / filterBlogResults
  pageResults,    \* the hits page.evaluate parses out of the result page
  searchEnv,      \* what the browser did during the last searchArticleTitle
  searchRet,      \* outcome of the last searchArticleTitle call
  filtered,       \* value returned by filterBlogResults
  gpc,            \* "idle" | "filtered" | "searched" | "threw"
  \* LLMEnhancerService.callWithRetry
  attempt,        \* loop variable `attempt`
  lastError,      \* local `lastError`
  calls,          \* outcomes of the generation calls made so far, in order
  sleeps,         \* delays (ms) passed to this.delay, in order
  retryRet,       \* value returned / error thrown by callWithRetry
  rpc,            \* "idle" | "attempting" | "returned" | "thrown"
  \* BeyondChatsScraper.scrapeArticlesBatch
  articleLinks,   \* parameter `articleLinks`
  linkIdx,        \* number of links the for-of loop has consumed
  result,         \* local `result` : [successful, failed]
  scrapes,        \* how scrapeArticleContent ended for each consumed link
  bpc,            \* "looping" | "returned"
  \* ApiService.storeArticles
  articles,       \* parameter `articles`
  artIdx,         \* number of articles the for-of loop has consumed
  storeResult,    \* local `result` : [successful, failed]
  stores,         \* how storeArticle ended for each consumed article
  nextId,         \* next id the backend hands out
  spc,            \* "idle" | "looping" | "returned"
  \* index.ts enhanceArticles
  storedArticles, \* parameter `storedArticles`
  enhIdx,         \* number of articles the for-of loop has consumed
  enhancedCount,  \* local `enhancedCount`
  failedCount,    \* local `failedCount`
  enhLog,         \* per-article outcome as logged by the loop
  escaped,        \* TRUE iff an error left enhanceArticles
  epc,            \* "looping" | "returned"
  \* LLMEnhancerService.formatWithCitations / enhanceArticle
  citeBody,       \* parameter `content` / the text the generation call returns
  citeRefs,       \* parameter `references`
  citeRet,        \* value returned (or the error thrown)
  cpc,            \* "idle" | "ready" | "formatted" | "enhanced" | "threw"
  \* scrapeArticleContent / scrapeContent on one page
  scrInput,       \* [url, env, page]: the argument and what the browser shows
  scrRet,         \* value returned (or the error thrown)
  scpc,           \* "idle" | "article" | "reference" | "done"
  \* BrowserService
  browser,        \* field `browser`: 0 is null, otherwise the process it names
  procs,          \* the browser processes started so far
  pages,          \* the page contexts created so far
  lastCall,       \* the last call made on the service and how it ended
  ncalls,         \* number of calls made so far
  \* index.ts main
  mpc,            \* position in main
  apiKey,         \* config.openai.apiKey is set
  todo,           \* page-scoped operations the current phase still has to make
  scraped,        \* scrapeResult.successful.length
  closeCalls,     \* number of times main has run browserService.close()
  mainRet,        \* "pending" | "completed" | "early return" | "throw"
  \* backend: the SQLite tables behind ArticleModel and EnhancedArticleModel
  dbArticles,     \* rows of table articles
  dbEnhanced,     \* rows of table enhanced_articles
  articleSeq,     \* sqlite_sequence of articles: the largest id ever handed out
  enhancedSeq,    \* sqlite_sequence of enhanced_articles
  everStored,     \* ids of all article rows that were ever stored
  lastReq,        \* the last request served and its response
  nreq,           \* number of requests served so far
  \* one evaluation of a page-reading function of the scrapers
  fnOp,           \* "ready" | name of the function that was applied
  fnIn,           \* what the page shows and the arguments
  fnOut,          \* value returned
  \* BeyondChatsScraper.scrapeOldestArticles
  opc,            \* position in scrapeOldestArticles
  oLastPageUrl,   \* local `lastPageUrl`
  oLinks,         \* local `articleLinks`
  oTrace,         \* operations invoked so far, in order
  oRet,           \* the BatchScrapeResult being built and returned
  \* overlapping calls of BrowserService.launch / newPage
  rbrowser,       \* field `browser`: 0 is null, otherwise the process it names
  rprocs,         \* browser processes started so far: TRUE while running
  rcallers        \* position and result of each call in flight

searchVars  == <<pageResults, searchEnv, searchRet, filtered, gpc>>
retryVars   == <<attempt, lastError, calls, sleeps, retryRet, rpc>>
batchVars   == <<articleLinks, linkIdx, result, scrapes, bpc>>
storeVars   == <<articles, artIdx, storeResult, stores, nextId, spc>>
enhanceVars == <<storedArticles, enhIdx, enhancedCount, failedCount, enhLog, escaped, epc>>
citeVars    == <<citeBody, citeRefs, citeRet, cpc>>
scrapeVars  == <<scrInput, scrRet, scpc>>
browserVars == <<browser, procs, pages, lastCall, ncalls>>
mainVars    == <<mpc, apiKey, todo, scraped, closeCalls, mainRet>>
backendVars == <<dbArticles, dbEnhanced, articleSeq, enhancedSeq, everStored,
                 lastReq, nreq>>
fnVars      == <<fnOp, fnIn, fnOut>>
oldestVars  == <<opc, oLastPageUrl, oLinks, oTrace, oRet>>
raceVars    == <<rbrowser, rprocs, rcallers>>
extras      == <<backendVars, fnVars, oldestVars, raceVars>>
vars == <<searchVars, retryVars, batchVars, storeVars, enhanceVars,
          citeVars, scrapeVars, browserVars, mainVars, extras>>

\* what an action of one service leaves alone
notSearch  == <<retryVars, batchVars, storeVars, enhanceVars,
                citeVars, scrapeVars, browserVars, mainVars, extras>>
notRetry   == <<searchVars, batchVars, storeVars, enhanceVars,
                citeVars, scrapeVars, browserVars, mainVars, extras>>
notBatch   == <<searchVars, retryVars, storeVars, enhanceVars,
                citeVars, scrapeVars, browserVars, mainVars, extras>>
notStore   == <<searchVars, retryVars, batchVars, enhanceVars,
                citeVars, scrapeVars, browserVars, mainVars, extras>>
notEnhance == <<searchVars, retryVars, batchVars, storeVars,
                citeVars, scrapeVars, browserVars, mainVars, extras>>
pipeline   == <<searchVars, retryVars, batchVars, storeVars, enhanceVars>>
notCite    == <<pipeline, scrapeVars, browserVars, mainVars, extras>>
notScrape  == <<pipeline, citeVars, browserVars, mainVars, extras>>
notBrowser == <<pipeline, citeVars, scrapeVars, mainVars, extras>>
notMain    == <<pipeline, citeVars, scrapeVars, extras>>
scraper    == <<pipeline, citeVars, scrapeVars, browserVars, mainVars>>
notBackend == <<scraper, fnVars, oldestVars, raceVars>>
notFn      == <<scraper, backendVars, oldestVars, raceVars>>
notOldest  == <<scraper, backendVars, fnVars, raceVars>>
notRace    == <<scraper, backendVars, fnVars, oldestVars>>

----------------------------------------------------------------------------
(* Bounds of the model *)

MaxHits == 3        \* longest list of search hits
MaxLinks == 3       \* longest list of article links
MaxArticles == 3    \* longest list of articles to store / to enhance

----------------------------------------------------------------------------
(* Generic helpers *)

Min(a, b) == IF a < b THEN a ELSE b

Max(a, b) == IF a > b THEN a ELSE b

RECURSIVE Pow2(_)
Pow2(n) == IF n <= 0 THEN 1 ELSE 2 * Pow2(n - 1)

RECURSIVE SumSeq(_)
SumSeq(s) == IF s = <<>> THEN 0 ELSE Head(s) + SumSeq(Tail(s))

SeqsUpTo(S, n) == UNION {[1..k -> S] : k \in 0..n}

\* Array.prototype.slice(start, end) with JavaScript's index normalisation
slice(s, start, end) ==
  LET n  == Len(s)
      from == IF start < 0 THEN Max(n + start, 0) ELSE Min(start, n)
      to   == IF end < 0 THEN Max(n + end, 0) ELSE Min(end, n)
  IN  SubSeq(s, from + 1, to)

\* String.prototype.toLowerCase on the characters the model uses
UpperChars == <<"A","B","C","D","E","F","G","H","I","J","K","L","M",
                "N","O","P","Q","R","S","T","U","V","W","X","Y","Z">>

LowerChars == <<"a","b","c","d","e","f","g","h","i","j","k","l","m",
                "n","o","p","q","r","s","t","u","v","w","x","y","z">>

toLowerCaseChar(c) ==
  IF \E i \in DOMAIN UpperChars : UpperChars[i] = c
  THEN LowerChars[CHOOSE i \in DOMAIN UpperChars : UpperChars[i] = c]
  ELSE c

\* a comparison that forgets to fold the case
toLowerCase_identity(s) == s

toLowerCase(s) == [i \in DOMAIN s |-> toLowerCaseChar(s[i])]

\* String.prototype.includes
includes(s, sub) ==
  \E i \in 0..(Len(s) - Len(sub)) : SubSeq(s, i + 1, i + Len(sub)) = sub

----------------------------------------------------------------------------
(* Thrown values.  A catch clause sees either an Error (whose message may  *)
(* be empty) or some other value.                                          *)

Ok == [thrown |-> FALSE, isError |-> FALSE, message |-> ""]

Err(m) == [thrown |-> TRUE, isError |-> TRUE, message |-> m]

NonError == [thrown |-> TRUE, isError |-> FALSE, message |-> ""]

Thrown == {Err(""), Err("net::ERR_FAILED"), NonError}

\* error instanceof Error ? error.message : 'Unknown error'
errorMessage(e) == IF e.isError THEN e.message ELSE "Unknown error"

\* What the browser does during one page-scoped operation: newPage() is
\* awaited before the try block; goto, waitForSelector and evaluate run
\* inside it; closePage() runs in the finally block.
PageEnvs ==
  {[newPage |-> n, stage |-> "none", thrown |-> Ok, close |-> Ok] : n \in Thrown}
  \cup {[newPage |-> Ok, stage |-> s, thrown |-> t, close |-> c] :
          s \in {"goto", "wait", "evaluate"}, t \in Thrown, c \in {Ok} \cup Thrown}
  \cup {[newPage |-> Ok, stage |-> "none", thrown |-> Ok, close |-> c] :
          c \in {Ok} \cup Thrown}

NoEnv == [newPage |-> Ok, stage |-> "none", thrown |-> Ok, close |-> Ok]

----------------------------------------------------------------------------
(* GoogleSearchService *)

maxResults == 2

beyondchats_com == <<"b","e","y","o","n","d","c","h","a","t","s",".","c","o","m">>

excludeDomains == {beyondchats_com}

M_blog == <<"/","b","l","o","g">>
M_article == <<"/","a","r","t","i","c","l","e">>
M_post == <<"/","p","o","s","t">>
M_news == <<"/","n","e","w","s">>
M_story == <<"/","s","t","o","r","y">>
M_guide == <<"/","g","u","i","d","e">>
M_howto == <<"/","h","o","w","-","t","o">>
M_whatis == <<"/","w","h","a","t","-","i","s">>
M_tips == <<"/","t","i","p","s">>
T_product == <<"/","p","r","o","d","u","c","t">>
T_pricing == <<"/","p","r","i","c","i","n","g">>
T_login == <<"/","l","o","g","i","n">>
T_signup == <<"/","s","i","g","n","u","p">>
T_cart == <<"/","c","a","r","t">>

\* URLs a result page can carry (absolute, not google.com)
Url1 == <<"h","t","t","p",":","/","/","b","e","y","o","n","d","c","h","a","t","s",".","c","o","m","/","b","l","o","g","s","/","a">>
Url2 == <<"h","t","t","p",":","/","/","B","e","y","o","n","d","C","h","a","t","s",".","C","O","M","/","x">>
Url3 == <<"h","t","t","p",":","/","/","e","x",".","o","r","g","/","b","l","o","g","/","a">>
Url4 == <<"h","t","t","p",":","/","/","e","x",".","o","r","g","/","p","r","o","d","u","c","t","/","p","o","s","t">>
Url5 == <<"h","t","t","p",":","/","/","e","x",".","o","r","g","/","p","r","i","c","i","n","g">>
Url6 == <<"h","t","t","p",":","/","/","e","x",".","o","r","g","/","L","o","g","i","n">>
Url7 == <<"h","t","t","p",":","/","/","e","x",".","o","r","g","/","a","b","o","u","t">>
Url8 == <<"h","t","t","p",":","/","/","s",".","i","o","/","c","a","r","t","?","r","=","b","e","y","o","n","d","c","h","a","t","s",".","c","o","m">>
Url9 == <<"h","t","t","p",":","/","/","e","x",".","o","r","g","/","T","I","P","S","/","s","i","g","n","u","p">>

\* SearchResult values (types/index.ts): title and url
Hits ==
  { [title |-> "own blog", url |-> Url1],
    [title |-> "own blog", url |-> Url2],
    [title |-> "a blog", url |-> Url3],
    [title |-> "a product post", url |-> Url4],
    [title |-> "pricing", url |-> Url5],
    [title |-> "login", url |-> Url6],
    [title |-> "about", url |-> Url7],
    [title |-> "cart", url |-> Url8],
    [title |-> "tips", url |-> Url9] }

\* the callback of results.filter in filterBlogResults
isBlogResult(r) ==
  LET isExcluded == \E domain \in excludeDomains :
                      includes(toLowerCase(r.url), toLowerCase(domain))
      url == toLowerCase(r.url)
      isBlogLike ==
        \/ includes(url, M_blog) \/ includes(url, M_article) \/ includes(url, M_post)
        \/ includes(url, M_news) \/ includes(url, M_story) \/ includes(url, M_guide)
        \/ includes(url, M_howto) \/ includes(url, M_whatis) \/ includes(url, M_tips)
        \/ (/\ ~includes(url, T_product) /\ ~includes(url, T_pricing)
            /\ ~includes(url, T_login) /\ ~includes(url, T_signup)
            /\ ~includes(url, T_cart))
  IN  IF isExcluded THEN FALSE ELSE isBlogLike

\* keeps the last maxResults qualifying hits instead of the first
filterBlogResults_last(results) ==
  slice(SelectSeq(results, isBlogResult), 0 - maxResults, Len(results))

filterBlogResults(results) ==
  slice(SelectSeq(results, isBlogResult), 0, maxResults)

Titles == {"Chatbots 101", "AI in support"}

NoSearch == [threw |-> FALSE, error |-> Ok, results |-> <<>>, query |-> ""]

\* searchArticleTitle(title), the browser behaving as env and the result
\* page parsing to hits: [threw, error] when it rejects, else the
\* GoogleSearchResult [results, query]
searchArticleTitle(title, env, hits) ==
  IF env.newPage.thrown
  THEN [threw |-> TRUE, error |-> env.newPage, results |-> <<>>, query |-> ""]
  ELSE LET body == IF env.stage = "none"
                   THEN [threw |-> FALSE, error |-> Ok, results |-> hits, query |-> title]
                   ELSE [threw |-> FALSE, error |-> Ok, results |-> <<>>, query |-> title]
       IN  IF env.close.thrown
           THEN [threw |-> TRUE, error |-> env.close, results |-> <<>>, query |-> ""]
           ELSE body

\* searchAndFilter(title): [threw, error, results]
searchAndFilter(title, env, hits) ==
  LET searchResult == searchArticleTitle(title, env, hits)
  IN  IF searchResult.threw
      THEN [threw |-> TRUE, error |-> searchResult.error, results |-> <<>>]
      ELSE [threw |-> FALSE, error |-> Ok,
            results |-> filterBlogResults(searchResult.results)]

\* the browser behaviours a search can meet: what is thrown inside the try
\* block is only logged, so one thrown value stands for all
SearchEnvs ==
  {e \in PageEnvs :
     /\ e.stage # "none" => e.thrown = Err("net::ERR_FAILED")
     /\ e.newPage.thrown => e.newPage = Err("net::ERR_FAILED")
     /\ e.close.thrown => e.close = NonError}

SearchIdle ==
  /\ pageResults = <<>>
  /\ searchEnv = NoEnv
  /\ searchRet = NoSearch
  /\ filtered = <<>>
  /\ gpc = "idle"

InitSearchVars ==
  /\ pageResults \in SeqsUpTo(Hits, MaxHits)
  /\ searchEnv = NoEnv
  /\ searchRet = NoSearch
  /\ filtered = <<>>
  /\ gpc = "idle"

\* a direct call filterBlogResults(pageResults)
FilterBlogResults ==
  /\ gpc = "idle"
  /\ filtered' = filterBlogResults(pageResults)
  /\ gpc' = "filtered"
  /\ UNCHANGED <<pageResults, searchEnv, searchRet>>
  /\ UNCHANGED notSearch

\* searchAndFilter(title): searchArticleTitle, then filterBlogResults
SearchAndFilter ==
  /\ gpc = "idle"
  /\ \E title \in Titles, env \in SearchEnvs :
       \E r \in {searchAndFilter(title, env, pageResults)} :
           /\ searchEnv' = env
           /\ searchRet' = searchArticleTitle(title, env, pageResults)
           /\ filtered' = r.results
           /\ gpc' = IF r.threw THEN "threw" ELSE "searched"
  /\ UNCHANGED pageResults
  /\ UNCHANGED notSearch

----------------------------------------------------------------------------
(* LLMEnhancerService.callWithRetry *)

maxRetries == 3

\* What one chat.completions.create call can do: resolve with a response
\* whose choices[0]?.message?.content is a text, the empty string or
\* absent, or reject with a thrown value.
Response(has, text) == [kind |-> "response", hasContent |-> has, content |-> text, error |-> Ok]

Rejection(e) == [kind |-> "reject", hasContent |-> FALSE, content |-> <<>>, error |-> e]

\* generated texts, as character sequences (the empty text is <<>>)
TextA == <<"H","i">>

TextB == <<" ","#"," ","A","\n","b","\n"," ">>

GenOutcomes ==
  {Response(TRUE, TextA), Response(TRUE, TextB), Response(TRUE, <<>>),
   Response(FALSE, <<>>)}
  \cup {Rejection(Err("429 rate limit")), Rejection(Err("")), Rejection(NonError)}

EmptyResponseError == Err("Empty response from OpenAI API")

\* without the `if (!content) throw` check
caughtIn_noEmptyCheck(outcome) ==
  IF outcome.kind = "reject" THEN outcome.error ELSE Ok

\* the value the catch clause of the loop receives, if the try block throws
caughtIn(outcome) ==
  IF outcome.kind = "reject" THEN outcome.error
  ELSE IF ~outcome.hasContent \/ outcome.content = <<>> THEN EmptyResponseError
  ELSE Ok

\* Math.pow(2, attempt - 1) * 1000
backoffDelay(att) == Pow2(att - 1) * 1000

\* sleeps after every failed attempt, the last included
retryIteration_sleepAfterLast(att, outcome) ==
  LET caught == caughtIn(outcome)
  IN  IF ~caught.thrown
      THEN [returned |-> TRUE, content |-> outcome.content, lastError |-> Ok,
            delays |-> <<>>]
      ELSE [returned |-> FALSE, content |-> <<>>,
            lastError |-> IF caught.isError THEN caught ELSE Err("Unknown error"),
            delays |-> <<backoffDelay(att)>>]

\* one iteration of the for loop (try block and catch clause) at attempt att
retryIteration(att, outcome) ==
  LET caught == caughtIn(outcome)
  IN  IF ~caught.thrown
      THEN [returned |-> TRUE, content |-> outcome.content, lastError |-> Ok,
            delays |-> <<>>]
      ELSE [returned |-> FALSE, content |-> <<>>,
            lastError |-> IF caught.isError THEN caught ELSE Err("Unknown error"),
            delays |-> IF att < maxRetries THEN <<backoffDelay(att)>> ELSE <<>>]

\* throws a fresh generic error instead of the last one
exhaustedError_generic(le) == Err("LLM API call failed after all retries")

\* throw lastError || new Error('LLM API call failed after all retries')
exhaustedError(le) ==
  IF le.thrown THEN le ELSE Err("LLM API call failed after all retries")

NoRet == [kind |-> "none", content |-> <<>>, error |-> Ok]

RetryIdle ==
  /\ attempt = 1
  /\ lastError = Ok
  /\ calls = <<>>
  /\ sleeps = <<>>
  /\ retryRet = NoRet
  /\ rpc = "idle"

InitRetryVars ==
  /\ attempt = 1
  /\ lastError = Ok
  /\ calls = <<>>
  /\ sleeps = <<>>
  /\ retryRet = NoRet
  /\ rpc = "attempting"

\* an attempt whose call yields a non-empty content: callWithRetry returns it
AttemptSucceeds ==
  /\ rpc = "attempting"
  /\ attempt <= maxRetries
  /\ \E outcome \in GenOutcomes :
       LET it == retryIteration(attempt, outcome)
       IN  /\ it.returned
           /\ calls' = Append(calls, outcome)
           /\ retryRet' = [kind |-> "return", content |-> it.content, error |-> Ok]
           /\ rpc' = "returned"
  /\ UNCHANGED <<attempt, lastError, sleeps>>
  /\ UNCHANGED notRetry

\* an attempt that fails: the catch clause records the error and sleeps if
\* attempts remain; after the last attempt the loop ends and the function throws
AttemptFails ==
  /\ rpc = "attempting"
  /\ attempt <= maxRetries
  /\ \E outcome \in GenOutcomes :
       LET it == retryIteration(attempt, outcome)
       IN  /\ ~it.returned
           /\ calls' = Append(calls, outcome)
           /\ lastError' = it.lastError
           /\ sleeps' = sleeps \o it.delays
           /\ attempt' = attempt + 1
           /\ IF attempt + 1 <= maxRetries
              THEN /\ rpc' = "attempting"
                   /\ retryRet' = retryRet
              ELSE /\ rpc' = "thrown"
                   /\ retryRet' = [kind |-> "throw", content |-> <<>>,
                                   error |-> exhaustedError(it.lastError)]
  /\ UNCHANGED notRetry

\* callWithRetry as a function of what its successive calls do
RECURSIVE callWithRetryFrom(_, _, _)
callWithRetryFrom(att, le, script) ==
  IF att > maxRetries
  THEN [kind |-> "throw", content |-> <<>>, error |-> exhaustedError(le)]
  ELSE LET it == retryIteration(att, script[att])
       IN  IF it.returned
           THEN [kind |-> "return", content |-> it.content, error |-> Ok]
           ELSE callWithRetryFrom(att + 1, it.lastError, script)

callWithRetry(script) == callWithRetryFrom(1, Ok, script)

----------------------------------------------------------------------------
(* BeyondChatsScraper.scrapeArticleContent / scrapeArticlesBatch *)

ArticleUrls == {"https://beyondchats.com/blogs/a", "https://beyondchats.com/blogs/b"}

\* ArticleLink (types/index.ts); the optional title plays no part
ArticleLinks == {[url |-> u] : u \in ArticleUrls}

\* title and content as page.evaluate extracts them; "" when no selector
\* candidate matched (author and publication_date are optional and do not
\* influence the outcome)
PageData ==
  { [title |-> "Title", content |-> "Body text"],
    [title |-> "", content |-> "Body text"],
    [title |-> "Title", content |-> ""] }

NoData == [title |-> "", content |-> "", source_url |-> ""]

\* ScrapeResult<T>; an absent `error` is "" and an absent `data` has hasData FALSE
ScrapeFailure(msg) == [success |-> FALSE, hasData |-> FALSE, data |-> NoData, error |-> msg]

ScrapeSuccess(d) == [success |-> TRUE, hasData |-> TRUE, data |-> d, error |-> ""]

\* a validation that looks at the title only
missingRequiredFields_titleOnly(articleData) == articleData.title = ""

\* `!articleData.title || !articleData.content`
missingRequiredFields(articleData) == articleData.title = "" \/ articleData.content = ""

\* scrapeArticleContent(articleUrl), the browser behaving as env and the
\* page evaluating to page: [threw, error] when it rejects, else [ret]
scrapeArticleContent(articleUrl, env, page) ==
  IF env.newPage.thrown
  THEN [threw |-> TRUE, error |-> env.newPage, ret |-> ScrapeFailure("")]
  ELSE LET articleData == [title |-> page.title, content |-> page.content,
                           source_url |-> articleUrl]
           body ==
             IF env.stage # "none"
             THEN ScrapeFailure(errorMessage(env.thrown))
             ELSE IF missingRequiredFields(articleData)
             THEN ScrapeFailure("Missing required fields: title or content")
             ELSE ScrapeSuccess(articleData)
       IN  IF env.close.thrown
           THEN [threw |-> TRUE, error |-> env.close, ret |-> ScrapeFailure("")]
           ELSE [threw |-> FALSE, error |-> Ok, ret |-> body]

\* a catch clause that logs the error but records no failure
batchIteration_dropThrown(res, link, sc) ==
  IF ~sc.threw
  THEN IF sc.ret.success /\ sc.ret.hasData
       THEN [result |-> [res EXCEPT !.successful = Append(@, sc.ret.data)],
             escaped |-> FALSE]
       ELSE [result |-> [res EXCEPT !.failed = Append(@,
                           [url |-> link.url,
                            error |-> IF sc.ret.error # "" THEN sc.ret.error
                                      ELSE "Unknown error"])],
             escaped |-> FALSE]
  ELSE [result |-> res, escaped |-> FALSE]

\* a catch clause that records the failure and rethrows
batchIteration_rethrow(res, link, sc) ==
  IF ~sc.threw
  THEN IF sc.ret.success /\ sc.ret.hasData
       THEN [result |-> [res EXCEPT !.successful = Append(@, sc.ret.data)],
             escaped |-> FALSE]
       ELSE [result |-> [res EXCEPT !.failed = Append(@,
                           [url |-> link.url,
                            error |-> IF sc.ret.error # "" THEN sc.ret.error
                                      ELSE "Unknown error"])],
             escaped |-> FALSE]
  ELSE [result |-> [res EXCEPT !.failed = Append(@,
                      [url |-> link.url, error |-> errorMessage(sc.error)])],
        escaped |-> TRUE]

\* the body of the for-of loop of scrapeArticlesBatch: its try block and its
\* catch clause, given how scrapeArticleContent(link.url) ended
batchIteration(res, link, sc) ==
  IF ~sc.threw
  THEN IF sc.ret.success /\ sc.ret.hasData
       THEN [result |-> [res EXCEPT !.successful = Append(@, sc.ret.data)],
             escaped |-> FALSE]
       ELSE [result |-> [res EXCEPT !.failed = Append(@,
                           [url |-> link.url,
                            error |-> IF sc.ret.error # "" THEN sc.ret.error
                                      ELSE "Unknown error"])],
             escaped |-> FALSE]
  ELSE [result |-> [res EXCEPT !.failed = Append(@,
                      [url |-> link.url, error |-> errorMessage(sc.error)])],
        escaped |-> FALSE]

\* how a call of scrapeArticleContent ended
scrapeKind(sc) ==
  IF sc.threw THEN "threw" ELSE IF sc.ret.success THEN "success" ELSE "failure"

\* which step of the page-scoped operation went wrong
failedStep(env) ==
  IF env.newPage.thrown THEN "newPage"
  ELSE IF env.close.thrown THEN "closePage"
  ELSE env.stage

\* the browser behaviours and page contents an article scrape can meet (the
\* page content matters only when the page was opened and evaluated)
ScrapeEnvs ==
  {w \in [env : PageEnvs, page : PageData] :
     (w.env.newPage.thrown \/ w.env.stage # "none")
        => (w.page.title # "" /\ w.page.content # "")}

EmptyResult == [successful |-> <<>>, failed |-> <<>>]

BatchIdle ==
  /\ articleLinks = <<>>
  /\ linkIdx = 0
  /\ result = EmptyResult
  /\ scrapes = <<>>
  /\ bpc = "idle"

InitBatchVars ==
  /\ articleLinks \in SeqsUpTo(ArticleLinks, MaxLinks)
  /\ linkIdx = 0
  /\ result = EmptyResult
  /\ scrapes = <<>>
  /\ bpc = "looping"

\* one iteration of the loop of scrapeArticlesBatch
ScrapeNext ==
  /\ bpc = "looping"
  /\ linkIdx < Len(articleLinks)
  /\ \E w \in ScrapeEnvs :
       LET link == articleLinks[linkIdx + 1]
           sc == scrapeArticleContent(link.url, w.env, w.page)
           it == batchIteration(result, link, sc)
       IN  /\ result' = it.result
           /\ scrapes' = Append(scrapes, [kind |-> scrapeKind(sc)])
           /\ bpc' = IF it.escaped THEN "threw" ELSE "looping"
  /\ linkIdx' = linkIdx + 1
  /\ UNCHANGED articleLinks
  /\ UNCHANGED notBatch

\* the loop is over: scrapeArticlesBatch returns result
BatchReturn ==
  /\ bpc = "looping"
  /\ linkIdx = Len(articleLinks)
  /\ bpc' = "returned"
  /\ UNCHANGED <<articleLinks, linkIdx, result, scrapes>>
  /\ UNCHANGED notBatch

----------------------------------------------------------------------------
(* ApiService.storeArticle / storeArticles *)

\* what POST /articles can do: 201 with the created record, an error
\* response carrying a message, or no response at all
PostOutcomes == {"created", "conflict", "network"}

NullArticle == [isNull |-> TRUE, id |-> 0, title |-> "", content |-> "", source_url |-> ""]

\* storeArticle(article): the whole body is inside try/catch, the catch
\* clause logs and returns null
storeArticle(article, post, id) ==
  IF post = "created"
  THEN [threw |-> FALSE, error |-> Ok,
        ret |-> [isNull |-> FALSE, id |-> id, title |-> article.title,
                 content |-> article.content, source_url |-> article.source_url]]
  ELSE [threw |-> FALSE, error |-> Ok, ret |-> NullArticle]

\* the body of the for-of loop of storeArticles
storeIteration(res, article, st) ==
  IF ~st.threw
  THEN IF ~st.ret.isNull
       THEN [result |-> [res EXCEPT !.successful = Append(@, st.ret)],
             escaped |-> FALSE]
       ELSE [result |-> [res EXCEPT !.failed = Append(@,
                           [article |-> article, error |-> "Failed to store article"])],
             escaped |-> FALSE]
  ELSE [result |-> [res EXCEPT !.failed = Append(@,
                      [article |-> article, error |-> errorMessage(st.error)])],
        escaped |-> FALSE]

StoreIdle ==
  /\ articles = <<>>
  /\ artIdx = 0
  /\ storeResult = EmptyResult
  /\ stores = <<>>
  /\ nextId = 1
  /\ spc = "idle"

\* storeArticles(scrapeResult.successful), as main calls it after the scrape
StoreArticles ==
  /\ bpc = "returned"
  /\ spc = "idle"
  /\ articles' = result.successful
  /\ spc' = "looping"
  /\ UNCHANGED <<artIdx, storeResult, stores, nextId>>
  /\ UNCHANGED notStore

\* one iteration of the loop of storeArticles
StoreNext ==
  /\ spc = "looping"
  /\ artIdx < Len(articles)
  /\ \E post \in PostOutcomes :
       LET article == articles[artIdx + 1]
           st == storeArticle(article, post, nextId)
           it == storeIteration(storeResult, article, st)
       IN  /\ storeResult' = it.result
           /\ stores' = Append(stores, IF st.threw THEN "threw"
                                       ELSE IF st.ret.isNull THEN "null" ELSE "stored")
           /\ nextId' = IF post = "created" THEN nextId + 1 ELSE nextId
           /\ spc' = IF it.escaped THEN "threw" ELSE "looping"
  /\ artIdx' = artIdx + 1
  /\ UNCHANGED articles
  /\ UNCHANGED notStore

\* the loop is over: storeArticles returns result
StoreReturn ==
  /\ spc = "looping"
  /\ artIdx = Len(articles)
  /\ spc' = "returned"
  /\ UNCHANGED <<articles, artIdx, storeResult, stores, nextId>>
  /\ UNCHANGED notStore

----------------------------------------------------------------------------
(* ReferenceScraperService.scrapeContent / scrapeMultiple *)

maxContentLength == 10000

RefTitle == <<"R","e","f">>

\* A reference page as page.evaluate reads it: the title and the length of
\* the extracted text.  A ReferenceContent holds the first `chars`
\* characters of that text, followed by '...' when `ellipsis` is TRUE.
RefPages ==
  { [title |-> RefTitle, length |-> 250],
    [title |-> RefTitle, length |-> 9999],
    [title |-> RefTitle, length |-> 10000],
    [title |-> RefTitle, length |-> 10001],
    [title |-> RefTitle, length |-> 25000],
    [title |-> RefTitle, length |-> 0],
    [title |-> <<>>, length |-> 250] }

NoRef == [title |-> <<>>, content |-> [chars |-> 0, ellipsis |-> FALSE], source_url |-> <<>>]

RefFailure(msg) == [success |-> FALSE, hasData |-> FALSE, data |-> NoRef, error |-> msg]

RefSuccess(d) == [success |-> TRUE, hasData |-> TRUE, data |-> d, error |-> ""]

\* a truncation that also cuts a text of exactly maxContentLength characters
truncateContent_inclusive(length) ==
  IF length >= maxContentLength
  THEN [chars |-> maxContentLength, ellipsis |-> TRUE]
  ELSE [chars |-> length, ellipsis |-> FALSE]

\* content.content after the truncation step, for a text of `length` characters:
\* substring(0, maxContentLength) + '...' when it is longer than the cap
truncateContent(length) ==
  IF length > maxContentLength
  THEN [chars |-> Min(length, maxContentLength), ellipsis |-> TRUE]
  ELSE [chars |-> length, ellipsis |-> FALSE]

\* scrapeContent(url), the browser behaving as env and the page reading as page
scrapeContent(url, env, page) ==
  IF env.newPage.thrown
  THEN [threw |-> TRUE, error |-> env.newPage, ret |-> RefFailure("")]
  ELSE LET body ==
             IF env.stage # "none"
             THEN RefFailure(errorMessage(env.thrown))
             ELSE IF page.title = <<>> \/ page.length = 0
             THEN RefFailure("Missing required fields: title or content")
             ELSE RefSuccess(
                    [title |-> page.title,
                     content |-> truncateContent(page.length),
                     source_url |-> url])
       IN  IF env.close.thrown
           THEN [threw |-> TRUE, error |-> env.close, ret |-> RefFailure("")]
           ELSE [threw |-> FALSE, error |-> Ok, ret |-> body]

\* scrapeMultiple(urls): ws[i] is what the browser and the page do for urls[i]
RECURSIVE scrapeMultipleFrom(_, _, _, _)
scrapeMultipleFrom(urls, ws, i, results) ==
  IF i > Len(urls) THEN results
  ELSE LET r == scrapeContent(urls[i], ws[i].env, ws[i].page)
       IN  scrapeMultipleFrom(urls, ws, i + 1,
             IF ~r.threw /\ r.ret.success /\ r.ret.hasData
             THEN Append(results, r.ret.data)
             ELSE results)

\* a loop that ends at the first URL whose scrape does not succeed
scrapeMultiple_untilFailure(urls, ws) ==
  LET bad == {i \in 1..Len(urls) :
                LET r == scrapeContent(urls[i], ws[i].env, ws[i].page)
                IN r.threw \/ ~r.ret.success}
      n == IF bad = {} THEN Len(urls)
           ELSE (CHOOSE i \in bad : \A j \in bad : i <= j) - 1
  IN scrapeMultipleFrom(SubSeq(urls, 1, n), SubSeq(ws, 1, n), 1, <<>>)

scrapeMultiple(urls, ws) == scrapeMultipleFrom(urls, ws, 1, <<>>)

----------------------------------------------------------------------------
(* LLMEnhancerService.formatWithCitations / enhanceArticle *)

WhiteSpace == {" ", "\n", "\t"}

\* String.prototype.trim
RECURSIVE trimStart(_)
trimStart(s) ==
  IF s # <<>> /\ Head(s) \in WhiteSpace THEN trimStart(Tail(s)) ELSE s

RECURSIVE trimEnd(_)
trimEnd(s) ==
  IF s # <<>> /\ s[Len(s)] \in WhiteSpace THEN trimEnd(SubSeq(s, 1, Len(s) - 1)) ELSE s

trim(s) == trimEnd(trimStart(s))

Digits == <<"0","1","2","3","4","5","6","7","8","9">>

\* the decimal numeral of n, as a template literal prints it
RECURSIVE numeral(_)
numeral(n) ==
  IF n < 10 THEN <<Digits[n + 1]>> ELSE numeral(n \div 10) \o <<Digits[(n % 10) + 1]>>

\* '\n\n---\n\n## References\n\n'
ReferencesBlock ==
  <<"\n","\n","-","-","-","\n","\n","#","#"," ","R","e","f","e","r","e","n","c","e","s","\n","\n">>

\* a citation line numbered from 0
citationLine_zeroBased(ref, index) ==
  numeral(index) \o <<".", " ", "[">> \o ref.title \o <<"]", "(">>
     \o ref.source_url \o <<")", "\n">>

\* `${index + 1}. [${ref.title}](${ref.source_url})\n`
citationLine(ref, index) ==
  numeral(index + 1) \o <<".", " ", "[">> \o ref.title \o <<"]", "(">>
     \o ref.source_url \o <<")", "\n">>

RECURSIVE citationLines(_, _)
citationLines(references, index) ==
  IF index >= Len(references) THEN <<>>
  ELSE citationLine(references[index + 1], index) \o citationLines(references, index + 1)

\* a formatWithCitations that trims the body of an empty reference list too
formatWithCitations_trimEmpty(content, references) ==
  IF Len(references) = 0
  THEN trim(content)
  ELSE trim(content) \o ReferencesBlock \o citationLines(references, 0)

formatWithCitations(content, references) ==
  IF Len(references) = 0
  THEN content
  ELSE trim(content) \o ReferencesBlock \o citationLines(references, 0)

NoEnhanced == [enhanced_content |-> <<>>, reference_urls |-> <<>>]

\* enhanceArticle(original, references): script is what the successive
\* generation calls do
enhanceArticle(references, script) ==
  LET enhancedContent == callWithRetry(script)
  IN  IF enhancedContent.kind = "throw"
      THEN [threw |-> TRUE, error |-> enhancedContent.error, ret |-> NoEnhanced]
      ELSE [threw |-> FALSE, error |-> Ok,
            ret |-> [enhanced_content |->
                       formatWithCitations(enhancedContent.content, references),
                     reference_urls |->
                       [i \in DOMAIN references |-> references[i].source_url]]]

----------------------------------------------------------------------------
(* ApiService.storeEnhancedArticle and index.ts enhanceArticles *)

\* storeEnhancedArticle: the created record's id, or null (isNull) on any failure
storeEnhancedArticle(originalArticleId, enhancedContent, post) ==
  IF post = "created"
  THEN [isNull |-> FALSE, original_article_id |-> originalArticleId]
  ELSE [isNull |-> TRUE, original_article_id |-> 0]

\* what one article's enhancement can meet
EnhSearchEnvs ==
  { NoEnv,
    [newPage |-> Err("net::ERR_FAILED"), stage |-> "none", thrown |-> Ok, close |-> Ok],
    [newPage |-> Ok, stage |-> "goto", thrown |-> Err("net::ERR_FAILED"), close |-> Ok],
    [newPage |-> Ok, stage |-> "none", thrown |-> Ok, close |-> NonError] }

EnhHits ==
  { <<>>,
    << [title |-> "own blog", url |-> Url1], [title |-> "a blog", url |-> Url3],
       [title |-> "about", url |-> Url7] >> }

EnhRefEnvs ==
  { [env |-> NoEnv, page |-> [title |-> RefTitle, length |-> 250]],
    [env |-> [newPage |-> Err(""), stage |-> "none", thrown |-> Ok, close |-> Ok],
     page |-> [title |-> RefTitle, length |-> 250]] }

EnhScripts ==
  { <<Response(TRUE, TextA), Response(TRUE, TextA), Response(TRUE, TextA)>>,
    <<Rejection(Err("429 rate limit")), Response(TRUE, <<>>), Response(TRUE, TextB)>>,
    <<Rejection(Err("429 rate limit")), Rejection(Err("429 rate limit")),
      Rejection(Err("429 rate limit"))>>,
    <<Rejection(NonError), Rejection(NonError), Response(FALSE, <<>>)>> }

\* the parsed hits matter only when the search page was opened and evaluated
EnhSearches ==
  {g \in [env : EnhSearchEnvs, hits : EnhHits] : g.env # NoEnv => g.hits # <<>>}

EnhWorlds ==
  [search : EnhSearches, refs : [1..maxResults -> EnhRefEnvs],
   script : EnhScripts, post : {"created", "conflict"}]

\* a catch clause that logs the error and rethrows it
enhanceCatch_rethrow(article, e) ==
  [enhanced |-> 0, failed |-> 0, escaped |-> TRUE,
   log |-> [id |-> article.id, outcome |-> "error",
            error |-> errorMessage(e), references |-> 0]]

\* the catch clause of the loop of enhanceArticles
enhanceCatch(article, e) ==
  [enhanced |-> 0, failed |-> 1, escaped |-> FALSE,
   log |-> [id |-> article.id, outcome |-> "error",
            error |-> errorMessage(e), references |-> 0]]

\* the body of the for-of loop of enhanceArticles: its try block and catch clause
enhanceIteration(article, w) ==
  LET caught(e) == enhanceCatch(article, e)
      searchResults == searchAndFilter(article.title, w.search.env, w.search.hits)
      referenceUrls == [i \in DOMAIN searchResults.results |-> searchResults.results[i].url]
      references == scrapeMultiple(referenceUrls, w.refs)
      enhancedContent == enhanceArticle(references, w.script)
      stored == storeEnhancedArticle(article.id, enhancedContent.ret, w.post)
  IN  IF searchResults.threw THEN caught(searchResults.error)
      ELSE IF enhancedContent.threw THEN caught(enhancedContent.error)
      ELSE IF ~stored.isNull
      THEN [enhanced |-> 1, failed |-> 0, escaped |-> FALSE,
            log |-> [id |-> article.id, outcome |-> "enhanced", error |-> "",
                     references |-> Len(enhancedContent.ret.reference_urls)]]
      ELSE [enhanced |-> 0, failed |-> 1, escaped |-> FALSE,
            log |-> [id |-> article.id, outcome |-> "not stored", error |-> "",
                     references |-> 0]]

ArticleTitle(i) == IF i % 2 = 1 THEN "Chatbots 101" ELSE "AI in support"

EnhanceIdle ==
  /\ storedArticles = <<>>
  /\ enhIdx = 0
  /\ enhancedCount = 0
  /\ failedCount = 0
  /\ enhLog = <<>>
  /\ escaped = FALSE
  /\ epc = "idle"

\* the articles storeArticles returned: ids as the backend assigned them
InitEnhanceVars ==
  /\ \E n \in 0..MaxArticles :
       storedArticles = [i \in 1..n |-> [id |-> i, title |-> ArticleTitle(i)]]
  /\ enhIdx = 0
  /\ enhancedCount = 0
  /\ failedCount = 0
  /\ enhLog = <<>>
  /\ escaped = FALSE
  /\ epc = "looping"

\* one iteration of the loop of enhanceArticles
EnhanceNext ==
  /\ epc = "looping"
  /\ enhIdx < Len(storedArticles)
  /\ \E w \in EnhWorlds :
       \E it \in {enhanceIteration(storedArticles[enhIdx + 1], w)} :
           /\ enhancedCount' = enhancedCount + it.enhanced
           /\ failedCount' = failedCount + it.failed
           /\ enhLog' = Append(enhLog, it.log)
           /\ escaped' = it.escaped
           /\ epc' = IF it.escaped THEN "threw" ELSE "looping"
  /\ enhIdx' = enhIdx + 1
  /\ UNCHANGED storedArticles
  /\ UNCHANGED notEnhance

\* the loop is over: enhanceArticles logs the counts and returns
EnhanceReturn ==
  /\ epc = "looping"
  /\ enhIdx = Len(storedArticles)
  /\ epc' = "returned"
  /\ UNCHANGED <<storedArticles, enhIdx, enhancedCount, failedCount, enhLog, escaped>>
  /\ UNCHANGED notEnhance

----------------------------------------------------------------------------
(* formatWithCitations and enhanceArticle on every body and reference list *)

MaxRefs == 3        \* longest list of references

\* '## References'
ReferencesHeader == <<"#","#"," ","R","e","f","e","r","e","n","c","e","s">>

\* a generated text that carries a reference section of its own
TextC == <<"A","\n">> \o ReferencesHeader \o <<"\n","-"," ","x","\n">>

\* texts a generation call can return, and '' which only a direct caller of
\* formatWithCitations can pass
CiteBodies == {<<>>, <<" ">>, TextA, TextB, TextC}

\* ReferenceContent values as scrapeMultiple returns them
CiteReferences ==
  { [title |-> RefTitle, content |-> [chars |-> 250, ellipsis |-> FALSE],
     source_url |-> Url3],
    [title |-> <<"T","2">>, content |-> [chars |-> maxContentLength, ellipsis |-> TRUE],
     source_url |-> Url7],
    [title |-> RefTitle, content |-> [chars |-> 250, ellipsis |-> FALSE],
     source_url |-> Url4] }

CiteIdle ==
  /\ citeBody = <<>>
  /\ citeRefs = <<>>
  /\ citeRet = NoEnhanced
  /\ cpc = "idle"

InitCiteVars ==
  /\ citeBody \in CiteBodies
  /\ citeRefs \in SeqsUpTo(CiteReferences, MaxRefs)
  /\ citeRet = NoEnhanced
  /\ cpc = "ready"

\* a direct call formatWithCitations(citeBody, citeRefs)
FormatWithCitations ==
  /\ cpc = "ready"
  /\ citeRet' = [enhanced_content |-> formatWithCitations(citeBody, citeRefs),
                 reference_urls |-> <<>>]
  /\ cpc' = "formatted"
  /\ UNCHANGED <<citeBody, citeRefs>>
  /\ UNCHANGED notCite

\* enhanceArticle(original, citeRefs) when every generation call answers citeBody
EnhanceArticle ==
  /\ cpc = "ready"
  /\ \E r \in {enhanceArticle(citeRefs, [i \in 1..maxRetries |-> Response(TRUE, citeBody)])} :
       /\ citeRet' = r.ret
       /\ cpc' = IF r.threw THEN "threw" ELSE "enhanced"
  /\ UNCHANGED <<citeBody, citeRefs>>
  /\ UNCHANGED notCite

----------------------------------------------------------------------------
(* scrapeArticleContent and scrapeContent on one URL and one page *)

\* page.goto rejects a URL that is not absolute ('' among them): with such
\* an argument the try block is left at goto, if newPage() resolved at all
Navigable(url, env) ==
  Len(url) = 0 => (env.newPage.thrown \/ env.stage = "goto")

ArticleWorlds ==
  {w \in [url : ArticleUrls \cup {""}, env : PageEnvs, page : PageData] :
     (w.url = "" => (w.env.newPage.thrown \/ w.env.stage = "goto"))}

RefWorlds ==
  {w \in [url : {<<>>, Url3}, env : PageEnvs, page : RefPages] :
     Navigable(w.url, w.env)}

NoScrape == [threw |-> FALSE, error |-> Ok, ret |-> ScrapeFailure("")]

ScrapeIdle ==
  /\ scrInput = [url |-> "", env |-> NoEnv, page |-> [title |-> "", content |-> ""]]
  /\ scrRet = NoScrape
  /\ scpc = "idle"

InitScrapeVars ==
  /\ \/ scpc = "article" /\ scrInput \in ArticleWorlds
     \/ scpc = "reference" /\ scrInput \in RefWorlds
  /\ scrRet = NoScrape

\* a call scrapeArticleContent(scrInput.url)
ScrapeArticleContent ==
  /\ scpc = "article"
  /\ scrRet' = scrapeArticleContent(scrInput.url, scrInput.env, scrInput.page)
  /\ scpc' = "article done"
  /\ UNCHANGED scrInput
  /\ UNCHANGED notScrape

\* a call scrapeContent(scrInput.url)
ScrapeContent ==
  /\ scpc = "reference"
  /\ scrRet' = scrapeContent(scrInput.url, scrInput.env, scrInput.page)
  /\ scpc' = "reference done"
  /\ UNCHANGED scrInput
  /\ UNCHANGED notScrape

----------------------------------------------------------------------------
(* BrowserService (browser.service.ts).  A service state bs is the field  *)
(* `browser` (0 for null, else the index of the process it names), the     *)
(* processes puppeteer.launch has started and the pages browser.newPage    *)
(* has created.  page.close() and browser.close() are taken to complete.   *)

MaxCalls == 4       \* longest sequence of calls made on the service

NoBrowser == [browser |-> 0, procs |-> <<>>, pages |-> <<>>]

\* what a call to the library does: it resolves, or it rejects
CallOutcomes == {Ok, Err("net::ERR_FAILED")}

\* a launch() that starts a process whether or not a handle is held
launch_always(bs, o) ==
  IF o.thrown
  THEN [bs |-> bs, threw |-> TRUE, error |-> o, handle |-> 0, started |-> FALSE]
  ELSE LET id == Len(bs.procs) + 1
       IN  [bs |-> [bs EXCEPT !.browser = id,
                              !.procs = Append(@, [live |-> TRUE, closed |-> 0])],
            threw |-> FALSE, error |-> Ok, handle |-> id, started |-> TRUE]

\* launch(): o is what puppeteer.launch does when it is called
launch(bs, o) ==
  IF bs.browser # 0
  THEN [bs |-> bs, threw |-> FALSE, error |-> Ok, handle |-> bs.browser,
        started |-> FALSE]
  ELSE IF o.thrown
  THEN [bs |-> bs, threw |-> TRUE, error |-> o, handle |-> 0, started |-> FALSE]
  ELSE LET id == Len(bs.procs) + 1
       IN  [bs |-> [bs EXCEPT !.browser = id,
                              !.procs = Append(@, [live |-> TRUE, closed |-> 0])],
            threw |-> FALSE, error |-> Ok, handle |-> id, started |-> TRUE]

\* what the three awaited steps of newPage() do: this.launch(),
\* browser.newPage(), and the configuration of the page (setUserAgent,
\* setDefaultTimeout, setViewport); a step is reached only if the ones
\* before it resolved
NewPageOutcomes ==
  {o \in [launch : CallOutcomes, create : CallOutcomes, configure : CallOutcomes] :
     /\ o.launch.thrown => ~o.create.thrown
     /\ (o.launch.thrown \/ o.create.thrown) => ~o.configure.thrown}

\* newPage(): page is the index of the page returned (0 when it rejects)
newPage(bs, o) ==
  LET l == launch(bs, o.launch)
  IN  IF l.threw
      THEN [bs |-> l.bs, threw |-> TRUE, error |-> l.error, page |-> 0,
            handle |-> 0, started |-> FALSE]
      ELSE IF o.create.thrown
      THEN [bs |-> l.bs, threw |-> TRUE, error |-> o.create, page |-> 0,
            handle |-> l.handle, started |-> l.started]
      ELSE LET created == [l.bs EXCEPT !.pages =
                             Append(@, [proc |-> l.handle, open |-> TRUE])]
           IN  IF o.configure.thrown
               THEN [bs |-> created, threw |-> TRUE, error |-> o.configure,
                     page |-> 0, handle |-> l.handle, started |-> l.started]
               ELSE [bs |-> created, threw |-> FALSE, error |-> Ok,
                     page |-> Len(created.pages), handle |-> l.handle,
                     started |-> l.started]

\* close(): browser.close() ends the process and with it every page it holds
close(bs) ==
  IF bs.browser # 0
  THEN [browser |-> 0,
        procs |-> [bs.procs EXCEPT ![bs.browser] =
                     [live |-> FALSE, closed |-> @.closed + 1]],
        pages |-> [p \in DOMAIN bs.pages |->
                     IF bs.pages[p].proc = bs.browser
                     THEN [bs.pages[p] EXCEPT !.open = FALSE]
                     ELSE bs.pages[p]]]
  ELSE bs

\* page.isClosed()
isClosed(bs, page) == ~bs.pages[page].open

\* a closePage that calls page.close() whatever the page's state:
\* page.close() rejects on a page that is closed already
closePage_unguarded(bs, page) ==
  IF page # 0 /\ ~isClosed(bs, page)
  THEN [bs |-> [bs EXCEPT !.pages[page].open = FALSE], threw |-> FALSE]
  ELSE [bs |-> bs, threw |-> TRUE]

\* closePage(page); page 0 is a null page
closePage(bs, page) ==
  IF page # 0 /\ ~isClosed(bs, page)
  THEN [bs |-> [bs EXCEPT !.pages[page].open = FALSE], threw |-> FALSE]
  ELSE [bs |-> bs, threw |-> FALSE]

\* the operations that work on a page of their own
PageOps ==
  {"getLastPageUrl", "extractArticleLinks", "scrapeArticleContent",
   "scrapeContent", "searchArticleTitle"}

\* the catch clause of these two logs the error and throws it again
Rethrowing == {"getLastPageUrl", "extractArticleLinks"}

\* how the try block of such an operation ends
BodyOutcomes == {"success", "extraction failure", "navigation error"}

PageOutcomes ==
  {o \in [np : NewPageOutcomes, body : BodyOutcomes] :
     (o.np.launch.thrown \/ o.np.create.thrown \/ o.np.configure.thrown)
        => o.body = "success"}

\* one page-scoped operation: `const page = await browserService.newPage()`
\* before the try block, the work on the page inside it, and
\* `await browserService.closePage(page)` in the finally block
pageOperation(bs, op, o) ==
  LET np == newPage(bs, o.np)
  IN  IF np.threw
      THEN [bs |-> np.bs, threw |-> TRUE, started |-> np.started,
            succeeded |-> FALSE]
      ELSE LET c == closePage(np.bs, np.page)
           IN  [bs |-> c.bs,
                threw |-> c.threw \/ (o.body = "navigation error" /\ op \in Rethrowing),
                started |-> np.started,
                succeeded |-> ~c.threw /\ o.body = "success"]

BS == [browser |-> browser, procs |-> procs, pages |-> pages]

NoCall == [op |-> "none", page |-> 0, before |-> NoBrowser, threw |-> FALSE,
           handle |-> 0, started |-> FALSE]

BrowserIdle ==
  /\ browser = 0
  /\ procs = <<>>
  /\ pages = <<>>
  /\ lastCall = NoCall
  /\ ncalls = 0

\* `private browser: Browser | null = null`
InitBrowserVars == BrowserIdle

\* the service is left in state bs by the call recorded as c
Called(bs, c) ==
  /\ browser' = bs.browser
  /\ procs' = bs.procs
  /\ pages' = bs.pages
  /\ lastCall' = c
  /\ ncalls' = ncalls + 1
  /\ UNCHANGED notBrowser

Launch ==
  /\ ncalls < MaxCalls
  /\ \E o \in CallOutcomes :
       \E r \in {launch(BS, o)} :
         Called(r.bs, [op |-> "launch", page |-> 0, before |-> BS, threw |-> r.threw,
                       handle |-> r.handle, started |-> r.started])

NewPage ==
  /\ ncalls < MaxCalls
  /\ \E o \in NewPageOutcomes :
       \E r \in {newPage(BS, o)} :
         Called(r.bs, [op |-> "newPage", page |-> r.page, before |-> BS,
                       threw |-> r.threw, handle |-> r.handle, started |-> r.started])

Close ==
  /\ ncalls < MaxCalls
  /\ Called(close(BS), [op |-> "close", page |-> 0, before |-> BS, threw |-> FALSE,
                        handle |-> 0, started |-> FALSE])

ClosePage ==
  /\ ncalls < MaxCalls
  /\ \E p \in 0..Len(pages) :
       \E r \in {closePage(BS, p)} :
         Called(r.bs, [op |-> "closePage", page |-> p, before |-> BS,
                       threw |-> r.threw, handle |-> 0, started |-> FALSE])

PageOperation ==
  /\ ncalls < MaxCalls
  /\ \E op \in PageOps, o \in PageOutcomes :
       \E r \in {pageOperation(BS, op, o)} :
         Called(r.bs, [op |-> op, page |-> 0, before |-> BS, threw |-> r.threw,
                       handle |-> 0, started |-> r.started])

----------------------------------------------------------------------------
(* index.ts main: the three phases inside its try block, its catch clause  *)
(* and its finally block, over the BrowserService state                    *)

MainIdle ==
  /\ mpc = "idle"
  /\ apiKey = FALSE
  /\ todo = 0
  /\ scraped = 0
  /\ closeCalls = 0
  /\ mainRet = "pending"

InitMainVars ==
  /\ mpc = "getLastPageUrl"
  /\ apiKey \in BOOLEAN
  /\ todo = 0
  /\ scraped = 0
  /\ closeCalls = 0
  /\ mainRet = "pending"

\* main moves to position pc over service state bs
MainStep(bs, pc) ==
  /\ browser' = bs.browser
  /\ procs' = bs.procs
  /\ pages' = bs.pages
  /\ mpc' = pc
  /\ UNCHANGED <<lastCall, ncalls, apiKey>>
  /\ UNCHANGED notMain

\* scrapeOldestArticles: getLastPageUrl; its rejection is thrown on to main,
\* whose catch clause logs it and throws it again
MainGetLastPageUrl ==
  /\ mpc = "getLastPageUrl"
  /\ \E o \in PageOutcomes :
       \E r \in {pageOperation(BS, "getLastPageUrl", o)} :
         /\ MainStep(r.bs, IF r.threw THEN "finally" ELSE "extractArticleLinks")
         /\ mainRet' = IF r.threw THEN "throw" ELSE mainRet
  /\ UNCHANGED <<todo, scraped, closeCalls>>

\* scrapeOldestArticles: extractArticleLinks returns n links; with none,
\* scrapeOldestArticles returns an empty result and main returns early
MainExtractArticleLinks ==
  /\ mpc = "extractArticleLinks"
  /\ \E o \in PageOutcomes, n \in 0..MaxLinks :
       \E r \in {pageOperation(BS, "extractArticleLinks", o)} :
         /\ (n > 0 => r.succeeded)
         /\ (r.threw => n = 0)
         /\ MainStep(r.bs, IF r.threw \/ n = 0 THEN "finally" ELSE "scrapeArticlesBatch")
         /\ mainRet' = IF r.threw THEN "throw"
                       ELSE IF n = 0 THEN "early return" ELSE mainRet
         /\ todo' = n
  /\ UNCHANGED <<scraped, closeCalls>>

\* scrapeArticlesBatch: one iteration; a rejection is caught by the loop
MainScrapeArticle ==
  /\ mpc = "scrapeArticlesBatch"
  /\ todo > 0
  /\ \E o \in PageOutcomes :
       \E r \in {pageOperation(BS, "scrapeArticleContent", o)} :
         /\ MainStep(r.bs, mpc)
         /\ scraped' = IF r.succeeded THEN scraped + 1 ELSE scraped
  /\ todo' = todo - 1
  /\ UNCHANGED <<closeCalls, mainRet>>

\* scrapeOldestArticles returns: `if (scrapeResult.successful.length === 0) return`
MainScraped ==
  /\ mpc = "scrapeArticlesBatch"
  /\ todo = 0
  /\ MainStep(BS, IF scraped = 0 THEN "finally" ELSE "storeArticles")
  /\ mainRet' = IF scraped = 0 THEN "early return" ELSE mainRet
  /\ UNCHANGED <<todo, scraped, closeCalls>>

\* storeArticles stores some of the scraped articles; enhanceArticles runs
\* on them only if the API key is configured
MainStoreArticles ==
  /\ mpc = "storeArticles"
  /\ \E stored \in 0..scraped :
       /\ todo' = IF apiKey THEN stored ELSE 0
       /\ MainStep(BS, IF apiKey THEN "enhanceArticles" ELSE "finally")
  /\ mainRet' = IF apiKey THEN mainRet ELSE "completed"
  /\ UNCHANGED <<scraped, closeCalls>>

\* what the page-scoped operations of one article's enhancement meet:
\* the search, then up to maxResults reference pages
EnhancePageOutcomes ==
  LET ok == [np |-> [launch |-> Ok, create |-> Ok, configure |-> Ok],
             body |-> "success"]
      nav == [ok EXCEPT !.body = "navigation error"]
      cfg == [ok EXCEPT !.np.configure = Err("net::ERR_FAILED")]
  IN  { <<ok>>, <<cfg>>, <<ok, ok, ok>>, <<ok, nav, cfg>>, <<nav>> }

RECURSIVE pageOperations(_, _, _)
pageOperations(bs, os, i) ==
  IF i > Len(os) THEN bs
  ELSE pageOperations(
         pageOperation(bs, IF i = 1 THEN "searchArticleTitle" ELSE "scrapeContent",
                       os[i]).bs,
         os, i + 1)

\* enhanceArticles: one iteration; whatever is thrown is caught by the loop
MainEnhanceArticle ==
  /\ mpc = "enhanceArticles"
  /\ todo > 0
  /\ \E os \in EnhancePageOutcomes : MainStep(pageOperations(BS, os, 1), mpc)
  /\ todo' = todo - 1
  /\ UNCHANGED <<scraped, closeCalls, mainRet>>

\* enhanceArticles returns and the try block of main runs to its end
MainEnhanced ==
  /\ mpc = "enhanceArticles"
  /\ todo = 0
  /\ MainStep(BS, "finally")
  /\ mainRet' = "completed"
  /\ UNCHANGED <<todo, scraped, closeCalls>>

\* a main that releases the browser only at the end of its try block
mainFinally_onCompletion(bs, ret) ==
  IF ret = "completed" THEN [bs |-> close(bs), closes |-> 1]
  ELSE [bs |-> bs, closes |-> 0]

\* the finally block of main: `await browserService.close()`
mainFinally(bs, ret) == [bs |-> close(bs), closes |-> 1]

\* the finally block runs and main settles as mainRet says
MainFinally ==
  /\ mpc = "finally"
  /\ \E f \in {mainFinally(BS, mainRet)} :
       /\ MainStep(f.bs, "settled")
       /\ closeCalls' = closeCalls + f.closes
  /\ UNCHANGED <<todo, scraped, mainRet>>

----------------------------------------------------------------------------
(* backend: ArticleModel, EnhancedArticleModel and ArticleController over
   the tables of migrations 001 and 002.  The database is the record
   [articles, enhanced, articleSeq, enhancedSeq]; better-sqlite3 is
   synchronous, so every request is served in one step. *)

MaxRequests == 5    \* most requests served in one run

SourceUrls == {"https://beyondchats.com/blogs/a", "https://beyondchats.com/blogs/b"}

\* request bodies of POST /api/articles: title present or not, and a source_url
ArticleBodies == [hasTitle : BOOLEAN, source_url : SourceUrls]

\* ids a request can name: 0 is not positive, MaxRequests + 1 is never handed out
RequestIds == 0..(MaxRequests + 1)

NoRow == [id |-> 0]

EmptyDb == [articles |-> {}, enhanced |-> {}, articleSeq |-> 0, enhancedSeq |-> 0]

RowIds(rows) == {r.id : r \in rows}

\* ArticleModel.findById
findById(db, id) ==
  IF id \in RowIds(db.articles)
  THEN CHOOSE r \in db.articles : r.id = id
  ELSE NoRow

\* ArticleModel.existsById
existsById(db, id) == \E r \in db.articles : r.id = id

\* EnhancedArticleModel.existsByOriginalArticleId
existsByOriginalArticleId(db, originalArticleId) ==
  \E e \in db.enhanced : e.original_article_id = originalArticleId

\* the INSERT of ArticleModel.create without AUTOINCREMENT: the rowid is one
\* more than the largest id that is stored now
nextArticleId_maxRowid(db) ==
  IF db.articles = {} THEN 1
  ELSE 1 + CHOOSE m \in RowIds(db.articles) : \A i \in RowIds(db.articles) : i <= m

\* id INTEGER PRIMARY KEY AUTOINCREMENT: one more than the largest id the table
\* ever held
nextArticleId(db) == db.articleSeq + 1

\* ArticleModel.create: the INSERT throws on a source_url that is stored
\* already (source_url TEXT NOT NULL UNIQUE) and then changes nothing
ArticleModel_create(db, data) ==
  IF \E r \in db.articles : r.source_url = data.source_url
  THEN [db |-> db, threw |-> TRUE, row |-> NoRow,
        error |-> "UNIQUE constraint failed: articles.source_url"]
  ELSE LET row == [id |-> nextArticleId(db), source_url |-> data.source_url]
           db2 == [db EXCEPT !.articles = @ \cup {row}, !.articleSeq = row.id]
       IN [db |-> db2, threw |-> FALSE, row |-> findById(db2, row.id), error |-> ""]

\* ON DELETE CASCADE of enhanced_articles.original_article_id, which
\* connection.ts switches on with foreign_keys = ON
cascade(db, id) ==
  [db EXCEPT !.enhanced = {e \in @ : e.original_article_id # id}]

\* ArticleModel.delete: result.changes > 0
ArticleModel_delete(db, id) ==
  IF existsById(db, id)
  THEN [db |-> cascade([db EXCEPT !.articles = {r \in @ : r.id # id}], id),
        deleted |-> TRUE]
  ELSE [db |-> db, deleted |-> FALSE]

\* EnhancedArticleModel.create: the INSERT throws when original_article_id is
\* stored already (UNIQUE) or names no article (FOREIGN KEY)
EnhancedArticleModel_create(db, data) ==
  IF existsByOriginalArticleId(db, data.original_article_id)
  THEN [db |-> db, threw |-> TRUE, row |-> NoRow,
        error |-> "UNIQUE constraint failed: enhanced_articles.original_article_id"]
  ELSE IF ~existsById(db, data.original_article_id)
  THEN [db |-> db, threw |-> TRUE, row |-> NoRow,
        error |-> "FOREIGN KEY constraint failed"]
  ELSE LET row == [id |-> db.enhancedSeq + 1,
                   original_article_id |-> data.original_article_id]
       IN [db |-> [db EXCEPT !.enhanced = @ \cup {row}, !.enhancedSeq = row.id],
           threw |-> FALSE, row |-> row, error |-> ""]

\* errorHandler on an AppError
AppError(message, statusCode, error) ==
  [status |-> statusCode, error |-> error, message |-> message]

\* errorHandler on any other error
InternalError(message) ==
  [status |-> 500, error |-> "Internal Server Error", message |-> message]

Sent(statusCode) == [status |-> statusCode, error |-> "", message |-> ""]

\* ArticleController.create
createArticle(db, body) ==
  IF ~body.hasTitle
  THEN [db |-> db, row |-> NoRow,
        res |-> AppError("title: Required", 400, "Validation Error")]
  ELSE LET c == ArticleModel_create(db, body)
       IN IF c.threw
          THEN [db |-> c.db, row |-> NoRow,
                res |-> AppError("Article with this source URL already exists",
                                 400, "Validation Error")]
          ELSE [db |-> c.db, row |-> c.row, res |-> Sent(201)]

\* ArticleController.delete
deleteArticle(db, id) ==
  LET d == ArticleModel_delete(db, id)
  IN [db |-> d.db, deleted |-> d.deleted,
      res |-> IF ~d.deleted THEN AppError("Article not found", 404, "Not Found")
              ELSE Sent(204)]

\* ArticleController.createEnhanced that goes to the INSERT without asking
\* whether the original has an enhanced record
createEnhanced_unchecked(db, body) ==
  IF body.original_article_id <= 0
  THEN [db |-> db, row |-> NoRow,
        res |-> AppError("original_article_id: Original article ID must be a positive integer",
                         400, "Validation Error")]
  ELSE IF ~existsById(db, body.original_article_id)
  THEN [db |-> db, row |-> NoRow,
        res |-> AppError("Original article not found", 404, "Not Found")]
  ELSE LET c == EnhancedArticleModel_create(db, body)
       IN [db |-> c.db, row |-> c.row,
           res |-> IF c.threw THEN InternalError(c.error) ELSE Sent(201)]

\* ArticleController.createEnhanced
createEnhanced(db, body) ==
  IF body.original_article_id <= 0
  THEN [db |-> db, row |-> NoRow,
        res |-> AppError("original_article_id: Original article ID must be a positive integer",
                         400, "Validation Error")]
  ELSE IF ~existsById(db, body.original_article_id)
  THEN [db |-> db, row |-> NoRow,
        res |-> AppError("Original article not found", 404, "Not Found")]
  ELSE IF existsByOriginalArticleId(db, body.original_article_id)
  THEN [db |-> db, row |-> NoRow,
        res |-> AppError("Enhanced article already exists for this article",
                         400, "Validation Error")]
  ELSE LET c == EnhancedArticleModel_create(db, body)
       IN [db |-> c.db, row |-> c.row,
           res |-> IF c.threw THEN InternalError(c.error) ELSE Sent(201)]

Db == [articles |-> dbArticles, enhanced |-> dbEnhanced,
       articleSeq |-> articleSeq, enhancedSeq |-> enhancedSeq]

NoReq == [op |-> "none", id |-> 0, before |-> EmptyDb, stored |-> {},
          row |-> NoRow, deleted |-> FALSE, res |-> Sent(0)]

BackendIdle ==
  /\ dbArticles = {} /\ dbEnhanced = {}
  /\ articleSeq = 0 /\ enhancedSeq = 0
  /\ everStored = {}
  /\ lastReq = NoReq
  /\ nreq = -1

\* the tables after the migrations ran
InitBackendVars ==
  /\ dbArticles = {} /\ dbEnhanced = {}
  /\ articleSeq = 0 /\ enhancedSeq = 0
  /\ everStored = {}
  /\ lastReq = NoReq
  /\ nreq = 0

Served(db) ==
  /\ dbArticles' = db.articles
  /\ dbEnhanced' = db.enhanced
  /\ articleSeq' = db.articleSeq
  /\ enhancedSeq' = db.enhancedSeq
  /\ nreq' = nreq + 1
  /\ UNCHANGED notBackend

\* POST /api/articles
PostArticle ==
  /\ nreq \in 0..(MaxRequests - 1)
  /\ \E body \in ArticleBodies :
       \E r \in {createArticle(Db, body)} :
          /\ Served(r.db)
          /\ everStored' = everStored \cup (RowIds({r.row}) \ {0})
          /\ lastReq' = [op |-> "create", id |-> r.row.id, before |-> Db,
                         stored |-> everStored, row |-> r.row,
                         deleted |-> FALSE, res |-> r.res]

\* DELETE /api/articles/:id
DeleteArticle ==
  /\ nreq \in 0..(MaxRequests - 1)
  /\ \E id \in RequestIds :
       \E r \in {deleteArticle(Db, id)} :
          /\ Served(r.db)
          /\ UNCHANGED everStored
          /\ lastReq' = [op |-> "delete", id |-> id, before |-> Db,
                         stored |-> everStored, row |-> NoRow,
                         deleted |-> r.deleted, res |-> r.res]

\* POST /api/articles/:id/enhanced
PostEnhanced ==
  /\ nreq \in 0..(MaxRequests - 1)
  /\ \E id \in RequestIds :
       \E r \in {createEnhanced(Db, [original_article_id |-> id])} :
          /\ Served(r.db)
          /\ UNCHANGED everStored
          /\ lastReq' = [op |-> "createEnhanced", id |-> id, before |-> Db,
                         stored |-> everStored,
                         row |-> [id |-> r.row.id], deleted |-> FALSE,
                         res |-> r.res]

----------------------------------------------------------------------------
(* BeyondChatsScraper: what getLastPageUrl, extractArticleLinks and
   scrapeArticleContent compute from the page they read.  Attribute values
   and text contents are sequences of characters. *)

MaxCandidates == 2  \* most elements the title selectors match; the content
                    \* selectors match one more

\* config.beyondChats.baseUrl
baseUrl == <<"h","t","t","p","s",":","/","/","b","e","y","o","n","d","c","h","a","t","s",".","c","o","m">>

\* config.beyondChats.blogsUrl
blogsUrl == baseUrl \o <<"/","b","l","o","g","s","/">>

http == <<"h","t","t","p">>

\* String.prototype.startsWith
startsWith(s, prefix) ==
  Len(s) >= Len(prefix) /\ SubSeq(s, 1, Len(prefix)) = prefix

\* new URL(href, base).href for base = baseUrl, whose path is "/", and a
\* relative href: a path, a file name or a query
resolveUrl(href, base) ==
  IF href # <<>> /\ Head(href) = "/" THEN base \o href ELSE base \o <<"/">> \o href

\* `url.startsWith('http') ? url : new URL(url, config.beyondChats.baseUrl).href`
absoluteUrl(url) == IF startsWith(url, http) THEN url ELSE resolveUrl(url, baseUrl)

\* validLinks.slice(-count)
oldestLinks(validLinks, count) == slice(validLinks, 0 - count, Len(validLinks))

\* `articleLinks.filter((link) => link.url && link.url.length > 0).map(...)`
RECURSIVE validLinksOf(_)
validLinksOf(links) ==
  IF links = <<>> THEN <<>>
  ELSE LET link == Head(links)
       IN (IF link.url # <<>> /\ Len(link.url) > 0
           THEN <<[url |-> absoluteUrl(link.url)]>> ELSE <<>>)
          \o validLinksOf(Tail(links))

\* extractArticleLinks(pageUrl, count), the page evaluating to articleLinks
extractArticleLinks(links, count) ==
  oldestLinks(validLinksOf(links), count)

\* hrefs of the article elements of a listing page
A_rel == <<"/","b","l","o","g","s","/","a">>
A_file == <<"b">>
A_abs == <<"h","t","t","p","s",":","/","/","b","e","y","o","n","d","c","h","a","t","s",".","c","o","m","/","b","l","o","g","s","/","c">>

ListingHrefs == {<<>>, A_rel, A_file, A_abs}

ListingPages == SeqsUpTo([url : ListingHrefs], MaxLinks)

Counts == 0..(MaxLinks + 1)

\* ---- getLastPageUrl ----

NaN == -1
Infinity == -2

isDigit(c) == \E i \in 1..10 : Digits[i] = c

digitValue(c) == (CHOOSE i \in 1..10 : Digits[i] = c) - 1

\* the value of the digits of s from position i on, after acc
RECURSIVE digitsFrom(_, _, _)
digitsFrom(s, i, acc) ==
  IF i <= Len(s) /\ isDigit(s[i])
  THEN digitsFrom(s, i + 1, 10 * acc + digitValue(s[i]))
  ELSE acc

\* parseInt(text, 10) on a trimmed text without sign
parseInt(s) == IF s # <<>> /\ isDigit(s[1]) THEN digitsFrom(s, 1, 0) ELSE NaN

slash_page_slash == <<"/","p","a","g","e","/">>

\* href.match(/\/page\/(\d+)/): the number of the first match, NaN for no match
pageMatch(href) ==
  LET at == {i \in 1..Len(href) :
               /\ i + 6 <= Len(href)
               /\ SubSeq(href, i, i + 5) = slash_page_slash
               /\ isDigit(href[i + 6])}
  IN IF at = {} THEN NaN
     ELSE digitsFrom(href, (CHOOSE i \in at : \A j \in at : i <= j) + 6, 0)

last == <<"l","a","s","t">>

\* `text.toLowerCase().includes('last') || text === '>>' || text === '»'`
isLastMarker(text) ==
  includes(toLowerCase(text), last) \/ text = <<">", ">">> \/ text = <<"»">>

\* `n > maxPage`, maxPage possibly Infinity
exceeds(n, maxPage) == maxPage # Infinity /\ n > maxPage

\* `let maxPage = 1`
startPage == 1

\* the forEach of the pagination container: acc is [maxPage, maxPageUrl]
RECURSIVE containerScan(_, _)
containerScan(pageLinks, acc) ==
  IF pageLinks = <<>> THEN acc
  ELSE LET link == Head(pageLinks)
           href == link.href
           text == trim(link.text)
           byHref == IF pageMatch(href) # NaN /\ exceeds(pageMatch(href), acc.maxPage)
                     THEN [maxPage |-> pageMatch(href), maxPageUrl |-> href]
                     ELSE acc
           byText == IF parseInt(text) # NaN /\ exceeds(parseInt(text), byHref.maxPage)
                     THEN [maxPage |-> parseInt(text), maxPageUrl |-> href]
                     ELSE byHref
       IN containerScan(Tail(pageLinks),
            IF isLastMarker(text)
            THEN [maxPage |-> Infinity, maxPageUrl |-> href]
            ELSE byText)

query_page == <<"?","p","a","g","e","=">>
paged == <<"p","a","g","e","d","=">>

\* the filter of the branch without a pagination container
isPageLink(href) ==
  includes(href, slash_page_slash) \/ includes(href, query_page) \/ includes(href, paged)

\* the forEach of the branch without a pagination container
RECURSIVE fallbackScan(_, _)
fallbackScan(pageLinks, acc) ==
  IF pageLinks = <<>> THEN acc
  ELSE LET href == Head(pageLinks).href
       IN fallbackScan(Tail(pageLinks),
            IF pageMatch(href) # NaN /\ exceeds(pageMatch(href), acc.maxPage)
            THEN [maxPage |-> pageMatch(href), maxPageUrl |-> href]
            ELSE acc)

\* the page.evaluate of getLastPageUrl: <<>> is null.  dom is
\* [container, links]: whether a pagination selector matches, and the anchors
\* (of the container if there is one, of the document otherwise)
evaluateLastPage(dom) ==
  LET start == [maxPage |-> startPage, maxPageUrl |-> <<>>]
  IN IF dom.container
     THEN containerScan(dom.links, start).maxPageUrl
     ELSE fallbackScan(SelectSeq(dom.links, LAMBDA l : isPageLink(l.href)), start).maxPageUrl

\* getLastPageUrl() on a page that loads
getLastPageUrl(dom) ==
  LET lastPageUrl == evaluateLastPage(dom)
  IN IF lastPageUrl = <<>> THEN blogsUrl ELSE absoluteUrl(lastPageUrl)

\* anchors a listing root can show: numbered pages, a query-numbered page,
\* "Next", and the three markers of the last page
P_1 == [href |-> <<"/","b","l","o","g","s","/","p","a","g","e","/","1","/">>, text |-> <<"1">>]
P_2 == [href |-> <<"/","b","l","o","g","s","/","p","a","g","e","/","2","/">>, text |-> <<"2">>]
P_12 == [href |-> <<"/","b","l","o","g","s","/","p","a","g","e","/","1","2","/">>, text |-> <<" ","1","2"," ">>]
P_q3 == [href |-> <<"?","p","a","g","e","=","3">>, text |-> <<"3">>]
P_next == [href |-> <<"/","b","l","o","g","s","/","p","a","g","e","/","2","/">>, text |-> <<"N","e","x","t">>]
P_last == [href |-> blogsUrl \o <<"p","a","g","e","/","9","/">>, text |-> <<"L","a","s","t"," ","»">>]
P_raquo == [href |-> <<"/","b","l","o","g","s","/","p","a","g","e","/","8","/">>, text |-> <<"»">>]
P_gtgt == [href |-> <<"/","b","l","o","g","s","/","p","a","g","e","/","7","/">>, text |-> <<">",">">>]
P_about == [href |-> <<"/","a","b","o","u","t">>, text |-> <<"A","b","o","u","t">>]

PageAnchors == {P_1, P_2, P_12, P_q3, P_next, P_last, P_raquo, P_gtgt, P_about}

\* a pagination container holds no other anchors than pagination links
ListingRoots ==
  {d \in [container : BOOLEAN, links : SeqsUpTo(PageAnchors, MaxLinks)] :
     d.container => \A i \in 1..Len(d.links) : d.links[i] # P_about}

\* ---- the page.evaluate of scrapeArticleContent ----

minContentLength == 100

\* a text of n characters c
Repeat(c, n) == [i \in 1..n |-> c]

\* `el?.textContent?.trim()` is truthy
hasText(textContent) == trim(textContent) # <<>>

\* the loop over titleSelectors: texts[i] is the textContent of the element
\* the i-th selector matches, <<>> when it matches none
RECURSIVE firstTitle(_)
firstTitle(texts) ==
  IF texts = <<>> THEN <<>>
  ELSE IF hasText(Head(texts)) THEN trim(Head(texts))
  ELSE firstTitle(Tail(texts))

\* the loop over contentSelectors
RECURSIVE firstContent(_)
firstContent(texts) ==
  IF texts = <<>> THEN <<>>
  ELSE IF hasText(Head(texts)) /\ Len(trim(Head(texts))) > minContentLength
  THEN trim(Head(texts))
  ELSE firstContent(Tail(texts))

\* scrapeArticleContent(articleUrl) on a page that loads: the evaluate, then
\* the check of the required fields
scrapeArticlePage(articleUrl, titles, contents) ==
  LET articleData == [title |-> firstTitle(titles), content |-> firstContent(contents),
                      source_url |-> articleUrl]
  IN IF articleData.title = <<>> \/ articleData.content = <<>>
     THEN [success |-> FALSE, hasData |-> FALSE,
           data |-> [title |-> <<>>, content |-> <<>>, source_url |-> articleUrl],
           error |-> "Missing required fields: title or content"]
     ELSE [success |-> TRUE, hasData |-> TRUE, data |-> articleData, error |-> ""]

\* text contents of title elements
TitleTexts == {<<>>, <<" ">>, <<" ", "T", " ">>}

\* text contents of content elements: trimmed lengths 0, 99, 100, 100, 101
\* and 150
ContentTexts ==
  { <<>>, <<" ", " ">> \o Repeat("b", 99) \o <<"\n">>,
    Repeat("c", 100), <<" ">> \o Repeat("d", 100) \o <<" ">>,
    Repeat("e", 101), <<"\t">> \o Repeat("f", 150) }

ArticlePages ==
  [titles : SeqsUpTo(TitleTexts, MaxCandidates) \ {<<>>},
   contents : SeqsUpTo(ContentTexts, MaxCandidates + 1) \ {<<>>}]

\* ---- ReferenceScraperService.scrapeMultiple ----

\* what the browser and the page do for one reference URL: a scrape that
\* succeeds, a page without title, a navigation that fails, a closePage that
\* rejects, a newPage that rejects
MultiWorlds ==
  { [env |-> NoEnv, page |-> [title |-> RefTitle, length |-> 250]],
    [env |-> NoEnv, page |-> [title |-> RefTitle, length |-> 10001]],
    [env |-> NoEnv, page |-> [title |-> <<>>, length |-> 250]],
    [env |-> [NoEnv EXCEPT !.stage = "goto", !.thrown = Err("net::ERR_FAILED")],
     page |-> [title |-> RefTitle, length |-> 250]],
    [env |-> [NoEnv EXCEPT !.close = NonError],
     page |-> [title |-> RefTitle, length |-> 250]],
    [env |-> [NoEnv EXCEPT !.newPage = Err("Target closed")],
     page |-> [title |-> RefTitle, length |-> 250]] }

RefUrls == <<Url3, Url7, Url1, Url5>>

\* ---- one application of one of these functions ----

FnIdle ==
  /\ fnOp = "idle"
  /\ fnIn = [kind |-> "none"]
  /\ fnOut = <<>>

InitFnVars ==
  /\ fnOp = "ready"
  /\ fnOut = <<>>
  /\ \/ \E links \in ListingPages, count \in Counts :
          fnIn = [kind |-> "extractArticleLinks", articleLinks |-> links,
                  count |-> count]
     \/ \E dom \in ListingRoots :
          fnIn = [kind |-> "getLastPageUrl", dom |-> dom]
     \/ \E page \in ArticlePages :
          fnIn = [kind |-> "scrapeArticleContent", page |-> page]
     \/ \E ws \in SeqsUpTo(MultiWorlds, MaxRefs) :
          fnIn = [kind |-> "scrapeMultiple", urls |-> SubSeq(RefUrls, 1, Len(ws)),
                  ws |-> ws]

Applied(out) ==
  /\ fnOp = "ready"
  /\ fnOp' = fnIn.kind
  /\ fnOut' = out
  /\ UNCHANGED <<fnIn, notFn>>

ExtractArticleLinks ==
  /\ fnIn.kind = "extractArticleLinks"
  /\ Applied(extractArticleLinks(fnIn.articleLinks, fnIn.count))

GetLastPageUrl ==
  /\ fnIn.kind = "getLastPageUrl"
  /\ Applied(getLastPageUrl(fnIn.dom))

ScrapeArticlePage ==
  /\ fnIn.kind = "scrapeArticleContent"
  /\ Applied(scrapeArticlePage(A_abs, fnIn.page.titles, fnIn.page.contents))

ScrapeMultiple ==
  /\ fnIn.kind = "scrapeMultiple"
  /\ Applied(scrapeMultiple(fnIn.urls, fnIn.ws))

----------------------------------------------------------------------------
(* BeyondChatsScraper.scrapeOldestArticles.  opc is the position of the run:
   "Idle" before getLastPageUrl resolves, "FoundLastPage" while
   extractArticleLinks is awaited, "LinksExtracted" from then until the
   function returns ("Completed") ; "Threw" when the catch clause rethrows. *)

\* what getLastPageUrl resolves to, or that it rejects
LastPageOutcomes ==
  { [threw |-> FALSE, url |-> "https://beyondchats.com/blogs/"],
    [threw |-> FALSE, url |-> "https://beyondchats.com/blogs/page/9/"],
    [threw |-> TRUE, url |-> ""] }

\* browser behaviours and page contents of one article scrape: a success, a
\* page without content, a navigation that fails, a newPage that rejects
OldestWorlds ==
  { [env |-> NoEnv, page |-> [title |-> "Title", content |-> "Body text"]],
    [env |-> NoEnv, page |-> [title |-> "Title", content |-> ""]],
    [env |-> [NoEnv EXCEPT !.stage = "goto", !.thrown = Err("net::ERR_FAILED")],
     page |-> [title |-> "Title", content |-> "Body text"]],
    [env |-> [NoEnv EXCEPT !.newPage = NonError],
     page |-> [title |-> "Title", content |-> "Body text"]] }

\* a run that takes the listing root for the last page without looking
oldestNext_skip(pc, threw) ==
  IF threw THEN "Threw"
  ELSE IF pc = "Idle" THEN "LinksExtracted"
  ELSE IF pc = "FoundLastPage" THEN "LinksExtracted"
  ELSE "Completed"

\* where scrapeOldestArticles stands after the call it awaited at pc settled
oldestNext(pc, threw) ==
  IF threw THEN "Threw"
  ELSE IF pc = "Idle" THEN "FoundLastPage"
  ELSE IF pc = "FoundLastPage" THEN "LinksExtracted"
  ELSE "Completed"

Invoked(op, url) == [op |-> op, url |-> url]

OldestIdle ==
  /\ opc = "off"
  /\ oLastPageUrl = ""
  /\ oLinks = <<>>
  /\ oTrace = <<>>
  /\ oRet = EmptyResult

InitOldestVars ==
  /\ opc = "Idle"
  /\ oLastPageUrl = ""
  /\ oLinks = <<>>
  /\ oTrace = <<>>
  /\ oRet = EmptyResult

\* `const lastPageUrl = await this.getLastPageUrl()`
OldestGetLastPageUrl ==
  /\ opc = "Idle"
  /\ \E o \in LastPageOutcomes :
       /\ opc' = oldestNext(opc, o.threw)
       /\ oLastPageUrl' = o.url
  /\ oTrace' = Append(oTrace, Invoked("getLastPageUrl", ""))
  /\ UNCHANGED <<oLinks, oRet, notOldest>>

\* `const articleLinks = await this.extractArticleLinks(lastPageUrl, ...)`
OldestExtractArticleLinks ==
  /\ opc = "FoundLastPage"
  /\ \E threw \in BOOLEAN :
       \E links \in (IF threw THEN {<<>>} ELSE SeqsUpTo(ArticleLinks, MaxLinks)) :
          /\ opc' = oldestNext(opc, threw)
          /\ oLinks' = links
  /\ oTrace' = Append(oTrace, Invoked("extractArticleLinks", oLastPageUrl))
  /\ UNCHANGED <<oLastPageUrl, oRet, notOldest>>

\* one iteration of the loop of scrapeArticlesBatch(articleLinks)
OldestScrapeArticle ==
  /\ opc = "LinksExtracted"
  /\ Len(oRet.successful) + Len(oRet.failed) < Len(oLinks)
  /\ \E w \in OldestWorlds :
       LET link == oLinks[Len(oRet.successful) + Len(oRet.failed) + 1]
           sc == scrapeArticleContent(link.url, w.env, w.page)
       IN /\ oRet' = batchIteration(oRet, link, sc).result
          /\ oTrace' = Append(oTrace, Invoked("scrapeArticleContent", link.url))
  /\ UNCHANGED <<opc, oLastPageUrl, oLinks, notOldest>>

\* `return { successful: [], failed: [] }` for no links, otherwise the return
\* of what scrapeArticlesBatch built
OldestReturn ==
  /\ opc = "LinksExtracted"
  /\ Len(oRet.successful) + Len(oRet.failed) = Len(oLinks)
  /\ opc' = oldestNext(opc, FALSE)
  /\ oRet' = IF Len(oLinks) = 0 THEN EmptyResult ELSE oRet
  /\ UNCHANGED <<oLastPageUrl, oLinks, oTrace, notOldest>>

----------------------------------------------------------------------------
(* BrowserService.launch called again while an earlier call is still
   awaiting puppeteer.launch.  JavaScript runs each call without
   interruption up to its await, so a call takes two steps: the test of
   this.browser together with the start of puppeteer.launch, and the
   assignment when that promise settles. *)

MaxCallers == 3     \* most calls of launch in one run

NoCaller == [pc |-> "start", proc |-> 0, handle |-> 0]

RaceIdle ==
  /\ rbrowser = 0
  /\ rprocs = <<>>
  /\ rcallers = <<>>

InitRaceVars ==
  /\ rbrowser = 0
  /\ rprocs = <<>>
  /\ \E n \in 1..MaxCallers : rcallers = [c \in 1..n |-> NoCaller]

\* launch() up to its await
LaunchBegin ==
  \E c \in DOMAIN rcallers :
     /\ rcallers[c].pc = "start"
     /\ IF rbrowser # 0
        THEN /\ rcallers' = [rcallers EXCEPT ![c] = [pc |-> "returned", proc |-> 0,
                                                     handle |-> rbrowser]]
             /\ UNCHANGED rprocs
        ELSE /\ rprocs' = Append(rprocs, TRUE)
             /\ rcallers' = [rcallers EXCEPT ![c] = [pc |-> "awaiting",
                                                     proc |-> Len(rprocs) + 1,
                                                     handle |-> 0]]
     /\ UNCHANGED <<rbrowser, notRace>>

\* puppeteer.launch resolves: `this.browser = ...; return this.browser`
LaunchResolve ==
  \E c \in DOMAIN rcallers :
     /\ rcallers[c].pc = "awaiting"
     /\ rbrowser' = rcallers[c].proc
     /\ rcallers' = [rcallers EXCEPT ![c] = [pc |-> "returned", proc |-> @.proc,
                                             handle |-> @.proc]]
     /\ UNCHANGED <<rprocs, notRace>>

\* puppeteer.launch rejects: no process is left and launch() rejects
LaunchReject ==
  \E c \in DOMAIN rcallers :
     /\ rcallers[c].pc = "awaiting"
     /\ rprocs' = [rprocs EXCEPT ![rcallers[c].proc] = FALSE]
     /\ rcallers' = [rcallers EXCEPT ![c] = [pc |-> "threw", proc |-> @.proc,
                                             handle |-> 0]]
     /\ UNCHANGED <<rbrowser, notRace>>

Settled == \A c \in DOMAIN rcallers : rcallers[c].pc \in {"returned", "threw"}

\* close() once every call of launch has settled
RaceClose ==
  /\ Settled
  /\ rbrowser # 0
  /\ rprocs' = [rprocs EXCEPT ![rbrowser] = FALSE]
  /\ rbrowser' = 0
  /\ UNCHANGED <<rcallers, notRace>>

----------------------------------------------------------------------------
(* Specifications *)

PipelineIdle == SearchIdle /\ RetryIdle /\ BatchIdle /\ StoreIdle /\ EnhanceIdle

ExtrasIdle == BackendIdle /\ FnIdle /\ OldestIdle /\ RaceIdle

OthersIdle == CiteIdle /\ ScrapeIdle /\ BrowserIdle /\ MainIdle /\ ExtrasIdle

ScraperIdle == PipelineIdle /\ CiteIdle /\ ScrapeIdle /\ BrowserIdle /\ MainIdle

\* searchAndFilter and filterBlogResults on every list of hits
InitSearch ==
  /\ InitSearchVars /\ RetryIdle /\ BatchIdle /\ StoreIdle /\ EnhanceIdle
  /\ OthersIdle

NextSearch == FilterBlogResults \/ SearchAndFilter

SpecSearch == InitSearch /\ [][NextSearch]_vars

\* one call of callWithRetry
InitRetry ==
  /\ SearchIdle /\ InitRetryVars /\ BatchIdle /\ StoreIdle /\ EnhanceIdle
  /\ OthersIdle

NextRetry == AttemptSucceeds \/ AttemptFails

SpecRetry == InitRetry /\ [][NextRetry]_vars

\* scrapeArticlesBatch on a list of links, then storeArticles on its successes
InitBatch ==
  /\ SearchIdle /\ RetryIdle /\ InitBatchVars /\ StoreIdle /\ EnhanceIdle
  /\ OthersIdle

NextBatch == ScrapeNext \/ BatchReturn \/ StoreArticles \/ StoreNext \/ StoreReturn

SpecBatch == InitBatch /\ [][NextBatch]_vars

\* enhanceArticles on a list of stored articles
InitEnhance ==
  /\ SearchIdle /\ RetryIdle /\ BatchIdle /\ StoreIdle /\ InitEnhanceVars
  /\ OthersIdle

NextEnhance == EnhanceNext \/ EnhanceReturn

SpecEnhance == InitEnhance /\ [][NextEnhance]_vars

\* formatWithCitations / enhanceArticle on one body and one reference list
InitCitations ==
  /\ PipelineIdle /\ InitCiteVars /\ ScrapeIdle /\ BrowserIdle /\ MainIdle
  /\ ExtrasIdle

NextCitations == FormatWithCitations \/ EnhanceArticle

SpecCitations == InitCitations /\ [][NextCitations]_vars

\* scrapeArticleContent / scrapeContent on one URL and one page
InitScrape ==
  /\ PipelineIdle /\ CiteIdle /\ InitScrapeVars /\ BrowserIdle /\ MainIdle
  /\ ExtrasIdle

NextScrape == ScrapeArticleContent \/ ScrapeContent

SpecScrape == InitScrape /\ [][NextScrape]_vars

\* a sequence of calls on the BrowserService
InitBrowser ==
  /\ PipelineIdle /\ CiteIdle /\ ScrapeIdle /\ InitBrowserVars /\ MainIdle
  /\ ExtrasIdle

NextBrowser == Launch \/ NewPage \/ Close \/ ClosePage \/ PageOperation

SpecBrowser == InitBrowser /\ [][NextBrowser]_vars

\* one run of main
InitMain ==
  /\ PipelineIdle /\ CiteIdle /\ ScrapeIdle /\ InitBrowserVars /\ InitMainVars
  /\ ExtrasIdle

NextMain ==
  \/ MainGetLastPageUrl
  \/ MainExtractArticleLinks
  \/ MainScrapeArticle
  \/ MainScraped
  \/ MainStoreArticles
  \/ MainEnhanceArticle
  \/ MainEnhanced
  \/ MainFinally

SpecMain == InitMain /\ [][NextMain]_vars

\* a sequence of requests to the backend
InitBackend ==
  ScraperIdle /\ InitBackendVars /\ FnIdle /\ OldestIdle /\ RaceIdle

NextBackend == PostArticle \/ DeleteArticle \/ PostEnhanced

SpecBackend == InitBackend /\ [][NextBackend]_vars

\* one application of a page-reading function
InitFn ==
  ScraperIdle /\ BackendIdle /\ InitFnVars /\ OldestIdle /\ RaceIdle

NextFn == ExtractArticleLinks \/ GetLastPageUrl \/ ScrapeArticlePage \/ ScrapeMultiple

SpecFn == InitFn /\ [][NextFn]_vars

\* one run of scrapeOldestArticles
InitOldest ==
  ScraperIdle /\ BackendIdle /\ FnIdle /\ InitOldestVars /\ RaceIdle

NextOldest ==
  \/ OldestGetLastPageUrl
  \/ OldestExtractArticleLinks
  \/ OldestScrapeArticle
  \/ OldestReturn

SpecOldest == InitOldest /\ [][NextOldest]_vars

\* calls of launch that overlap, then close
InitRace ==
  ScraperIdle /\ BackendIdle /\ FnIdle /\ OldestIdle /\ InitRaceVars

NextRace == LaunchBegin \/ LaunchResolve \/ LaunchReject \/ RaceClose

SpecRace == InitRace /\ [][NextRace]_vars



----------------------------------------------------------------------------
(* Properties *)

IndexSeq(n) == [i \in 1..n |-> i]

\* the indices of s, in order, whose element satisfies Test
IndicesWhere(s, Test(_)) == SelectSeq(IndexSeq(Len(s)), LAMBDA i : Test(s[i]))

ScrapeSucceeded(sc) == sc.kind = "success"

ScrapeFailed(sc) == sc.kind # "success"

WasStored(st) == st = "stored"

WasNotStored(st) == st # "stored"

\* C1: when scrapeArticlesBatch (resp. storeArticles) has returned, the
\* lengths of successful and failed add up to the length of the input, the
\* entries of successful are those of the input items that succeeded, in
\* input order, and the entries of failed are those of all the other input
\* items, in input order: each item has one entry in exactly one list.
C1_BatchConservation ==
  /\ bpc = "returned" =>
       LET ok  == IndicesWhere(scrapes, ScrapeSucceeded)
           bad == IndicesWhere(scrapes, ScrapeFailed)
       IN  /\ Len(scrapes) = Len(articleLinks)
           /\ Len(result.successful) + Len(result.failed) = Len(articleLinks)
           /\ Len(result.successful) = Len(ok)
           /\ Len(result.failed) = Len(bad)
           /\ \A j \in DOMAIN ok :
                result.successful[j].source_url = articleLinks[ok[j]].url
           /\ \A j \in DOMAIN bad :
                result.failed[j].url = articleLinks[bad[j]].url
  /\ spc = "returned" =>
       LET ok  == IndicesWhere(stores, WasStored)
           bad == IndicesWhere(stores, WasNotStored)
       IN  /\ Len(stores) = Len(articles)
           /\ Len(storeResult.successful) + Len(storeResult.failed) = Len(articles)
           /\ Len(storeResult.successful) = Len(ok)
           /\ Len(storeResult.failed) = Len(bad)
           /\ \A j \in DOMAIN ok :
                storeResult.successful[j].source_url = articles[ok[j]].source_url
           /\ \A j \in DOMAIN bad :
                storeResult.failed[j].article = articles[bad[j]]

\* both batches returned, each with successes and failures
C1_Witness ==
  /\ bpc = "returned" /\ spc = "returned"
  /\ Len(articleLinks) = 3
  /\ scrapes[1].kind = "success" /\ scrapes[2].kind = "threw" /\ scrapes[3].kind = "success"
  /\ stores = <<"null", "stored">>

\* C2: a failure result or an exception of one scrape never ends the loop
\* of scrapeArticlesBatch: the batch returns only after every link was
\* attempted, and every link whose scrape succeeded has its article in
\* successful.
C2_Resilience ==
  /\ bpc \in {"looping", "returned"}
  /\ bpc = "looping" => Len(scrapes) = linkIdx
  /\ bpc = "returned" =>
       /\ Len(scrapes) = Len(articleLinks)
       /\ Len(result.successful) = Len(IndicesWhere(scrapes, ScrapeSucceeded))
       /\ \A i \in DOMAIN scrapes :
            scrapes[i].kind = "success" =>
              \E j \in DOMAIN result.successful :
                 result.successful[j].source_url = articleLinks[i].url

\* a link that threw and a link that returned a failure, followed by a success
C2_Witness ==
  /\ bpc = "returned"
  /\ Len(scrapes) = 3
  /\ scrapes[1].kind = "threw"
  /\ scrapes[2].kind = "failure"
  /\ scrapes[3].kind = "success"
  /\ Len(result.successful) = 1
  /\ Len(result.failed) = 2

\* C3: every entry of failed carries the URL of the link that failed and a
\* non-empty error message, whichever step of the scrape failed.
C3_FailedEntriesHaveMessage ==
  LET bad == IndicesWhere(scrapes, ScrapeFailed)
  IN  \A j \in DOMAIN result.failed :
        /\ result.failed[j].error # ""
        /\ j \in DOMAIN bad => result.failed[j].url = articleLinks[bad[j]].url

\* a generation call that yields a usable text
GenSucceeded(o) == o.kind = "response" /\ o.hasContent /\ o.content # <<>>

\* a generation call that resolves with an empty or absent content
GenEmpty(o) == o.kind = "response" /\ (~o.hasContent \/ o.content = <<>>)

\* the Error a failed attempt leaves behind
ErrorOfAttempt(o) ==
  IF o.kind = "reject"
  THEN IF o.error.isError THEN o.error ELSE Err("Unknown error")
  ELSE Err("Empty response from OpenAI API")

\* C4: callWithRetry makes at most 3 calls; when it returns, the last call
\* made is the first one that succeeded and its text is the value returned;
\* when it throws, exactly 3 calls were made, all failed, and the error
\* thrown is the error of the third.
C4_RetryBound ==
  /\ Len(calls) <= 3
  /\ rpc = "returned" =>
       /\ Len(calls) >= 1
       /\ GenSucceeded(calls[Len(calls)])
       /\ \A i \in 1..(Len(calls) - 1) : ~GenSucceeded(calls[i])
       /\ retryRet.kind = "return"
       /\ retryRet.content = calls[Len(calls)].content
  /\ rpc = "thrown" =>
       /\ Len(calls) = 3
       /\ \A i \in 1..3 : ~GenSucceeded(calls[i])
       /\ retryRet.kind = "throw"
       /\ retryRet.error = ErrorOfAttempt(calls[3])

\* three failed calls whose errors differ: the third one's is thrown
C4_Witness ==
  /\ rpc = "thrown"
  /\ calls[1] = Rejection(Err("429 rate limit"))
  /\ calls[2] = Rejection(Err(""))
  /\ GenEmpty(calls[3])
  /\ retryRet.error.message = "Empty response from OpenAI API"

\* C5: a call that resolves with an empty or absent content is a failed
\* attempt: its content is never the value returned, it uses up one of the
\* attempts, and it is followed by another attempt unless it was the third.
C5_EmptyResponseIsFailure ==
  /\ rpc = "returned" => (retryRet.content # <<>> /\ ~GenEmpty(calls[Len(calls)]))
  /\ rpc = "attempting" => attempt = Len(calls) + 1
  /\ \A i \in DOMAIN calls :
       (GenEmpty(calls[i]) /\ i = Len(calls)) =>
          IF i < 3 THEN rpc = "attempting" /\ lastError = Err("Empty response from OpenAI API")
          ELSE rpc = "thrown"

\* an empty first response followed by a successful second call
C5_Witness ==
  /\ rpc = "returned"
  /\ Len(calls) = 2
  /\ calls[1] = Response(TRUE, <<>>)
  /\ retryRet.content = TextB

C7_EnhanceLoop ==
  /\ ~escaped
  /\ epc \in {"idle", "looping", "returned"}
  /\ Len(enhLog) = enhIdx
  /\ \A i \in DOMAIN enhLog : enhLog[i].id = storedArticles[i].id
  /\ enhancedCount + failedCount = enhIdx
  /\ epc = "returned" =>
       /\ enhIdx = Len(storedArticles)
       /\ enhancedCount + failedCount = Len(storedArticles)

\* an article whose enhancement raised an error, one that could not be
\* stored and one that was enhanced, in this order
C7_Witness ==
  /\ epc = "returned"
  /\ Len(enhLog) = 3
  /\ enhLog[1].outcome = "error" /\ enhLog[1].error = "429 rate limit"
  /\ enhLog[2].outcome = "not stored"
  /\ enhLog[3].outcome = "enhanced"
  /\ enhancedCount = 1
  /\ failedCount = 2

\* C8: searchArticleTitle never rejects, and a search in which any step
\* failed returns an empty results list, so that searchAndFilter returns
\* an empty list.
C8_SearchNeverThrows ==
  gpc \in {"searched", "threw"} =>
    /\ ~searchRet.threw
    /\ gpc = "searched"
    /\ failedStep(searchEnv) # "none" => (searchRet.results = <<>> /\ filtered = <<>>)

\* each letter's counterpart in the other case
OtherCase ==
  [c \in {UpperChars[i] : i \in DOMAIN UpperChars} \cup {LowerChars[i] : i \in DOMAIN LowerChars} |->
     IF \E i \in DOMAIN UpperChars : UpperChars[i] = c
     THEN LowerChars[CHOOSE i \in DOMAIN UpperChars : UpperChars[i] = c]
     ELSE UpperChars[CHOOSE i \in DOMAIN LowerChars : LowerChars[i] = c]]

\* the same letter, whatever its case
SameLetter(a, b) ==
  \/ a = b
  \/ a \in DOMAIN OtherCase /\ OtherCase[a] = b

ContainsIgnoringCase(s, sub) ==
  \E k \in 0..(Len(s) - Len(sub)) :
     \A j \in 1..Len(sub) : SameLetter(s[k + j], sub[j])

\* the hits whose URL contains the excluded domain, in any letter case
HitsOfExcludedDomain ==
  {h \in Hits : ContainsIgnoringCase(h.url, beyondchats_com)}

\* C9: filterBlogResults returns at most 2 hits, none of whose URLs
\* contains, in any letter case, the excluded domain beyondchats.com.
C9_FilterBoundAndExclusion ==
  gpc \in {"filtered", "searched"} =>
    /\ Len(filtered) <= 2
    /\ \A i \in DOMAIN filtered :
         filtered[i] \in Hits \ HitsOfExcludedDomain

\* an input holding the excluded domain in capitals, filtered to 2 hits
C9_Witness ==
  /\ gpc = "filtered"
  /\ Len(pageResults) = 3
  /\ pageResults[1].url = Url2
  /\ Len(filtered) = 2

ContentMarkers ==
  {M_blog, M_article, M_post, M_news, M_story, M_guide, M_howto, M_whatis, M_tips}

TransactionalMarkers == {T_product, T_pricing, T_login, T_signup, T_cart}

\* the hits that qualify: no excluded domain, and a content-path marker or
\* no transactional marker
QualifyingHits ==
  {h \in Hits :
     /\ ~ContainsIgnoringCase(h.url, beyondchats_com)
     /\ \/ \E m \in ContentMarkers : ContainsIgnoringCase(h.url, m)
        \/ \A m \in TransactionalMarkers : ~ContainsIgnoringCase(h.url, m)}

\* the number of qualifying hits among the first i of s
QualifyingUpTo(s, i) == Cardinality({m \in 1..i : s[m] \in QualifyingHits})

\* C10: with k qualifying hits in the input, filterBlogResults returns
\* min(2, k) hits, the j-th of which is the j-th qualifying hit of the input.
C10_FilterSelectsFirstQualifying ==
  gpc \in {"filtered", "searched"} =>
    LET input == IF gpc = "filtered" THEN pageResults ELSE searchRet.results
        k == QualifyingUpTo(input, Len(input))
    IN  /\ Len(filtered) = Min(2, k)
        /\ \A j \in DOMAIN filtered :
             \E i \in DOMAIN input :
                /\ input[i] \in QualifyingHits
                /\ QualifyingUpTo(input, i) = j
                /\ filtered[j] = input[i]

\* three qualifying hits, the first with a transactional and a content marker
C10_Witness ==
  /\ gpc = "filtered"
  /\ Len(pageResults) = 3
  /\ pageResults[1].url = Url4
  /\ pageResults[2].url = Url9
  /\ pageResults[3].url = Url7
  /\ filtered = <<pageResults[1], pageResults[2]>>

\* number of places at which sub occurs in s
Occurrences(s, sub) ==
  Cardinality({i \in 0..(Len(s) - Len(sub)) : SubSeq(s, i + 1, i + Len(sub)) = sub})

\* C11: for every body and every non-empty reference list, the text returned by
\* formatWithCitations contains the header '## References' exactly once.
C11_HeaderExactlyOnce ==
  (cpc = "formatted" /\ Len(citeRefs) > 0)
     => Occurrences(citeRet.enhanced_content, ReferencesHeader) = 1

\* the lines of s: the pieces that end with a line feed (and what follows the last one)
RECURSIVE Lines(_)
Lines(s) ==
  IF s = <<>> THEN <<>>
  ELSE IF \E i \in 1..Len(s) : s[i] = "\n"
  THEN LET i == CHOOSE k \in 1..Len(s) : s[k] = "\n" /\ \A m \in 1..(k - 1) : s[m] # "\n"
       IN  <<SubSeq(s, 1, i - 1)>> \o Lines(SubSeq(s, i + 1, Len(s)))
  ELSE <<s>>

\* the bullet the i-th reference is to get, for i below ten
Bullet(i, ref) ==
  <<Digits[i + 1], ".", " ", "[">> \o ref.title \o <<"]", "(">> \o ref.source_url \o <<")">>

\* C12: for n >= 1 references, enhanceArticle returns the trimmed generated body,
\* the separator and header, and then exactly n bullets, the i-th numbered i and
\* carrying the title and URL of the i-th reference; reference_urls is the list
\* of the references' URLs in the same order.
C12_CitationBullets ==
  (cpc = "enhanced" /\ Len(citeRefs) >= 1) =>
     LET text == citeRet.enhanced_content
         body == trim(citeBody)
         head == Len(body) + Len(ReferencesBlock)
         bullets == Lines(SubSeq(text, head + 1, Len(text)))
     IN  /\ Len(text) >= head
         /\ SubSeq(text, 1, Len(body)) = body
         /\ SubSeq(text, Len(body) + 1, head) = ReferencesBlock
         /\ Len(bullets) = Len(citeRefs)
         /\ \A i \in 1..Len(citeRefs) : bullets[i] = Bullet(i, citeRefs[i])
         /\ text[Len(text)] = "\n"
         /\ Len(citeRet.reference_urls) = Len(citeRefs)
         /\ \A i \in 1..Len(citeRefs) :
              citeRet.reference_urls[i] = citeRefs[i].source_url

\* three references, two of them different, after a body that trim shortens
C12_Witness ==
  /\ cpc = "enhanced"
  /\ Len(citeRefs) = 3
  /\ citeRefs[1] # citeRefs[2]
  /\ citeRefs[1].title # citeRefs[2].title
  /\ trim(citeBody) # citeBody
  /\ Len(citeRet.reference_urls) = 3

\* C13 as stated: for an empty reference list formatWithCitations returns the
\* trimmed input body.
C13_EmptyListTrimmed ==
  (cpc = "formatted" /\ citeRefs = <<>>)
     => citeRet.enhanced_content = trim(citeBody)

\* C13 amended: for an empty reference list formatWithCitations returns the
\* input body unchanged, leading and trailing whitespace included; the result
\* is the trimmed body exactly when the body neither starts nor ends with
\* whitespace.
C13_EmptyListUnchanged ==
  (cpc = "formatted" /\ citeRefs = <<>>) =>
     /\ citeRet.enhanced_content = citeBody
     /\ (citeRet.enhanced_content = trim(citeBody))
          <=> (citeBody = <<>> \/ (citeBody[1] \notin WhiteSpace
                                   /\ citeBody[Len(citeBody)] \notin WhiteSpace))

\* an empty reference list and a body with whitespace at both ends
C13_Witness ==
  /\ cpc = "formatted"
  /\ citeRefs = <<>>
  /\ citeBody = TextB
  /\ citeRet.enhanced_content # trim(citeBody)

\* C14: whenever reference_urls of a value returned by enhanceArticle is empty,
\* its enhanced_content contains no '## References' header.
C14_NoHeaderWithoutReferences ==
  (cpc = "enhanced" /\ citeRet.reference_urls = <<>>)
     => ~includes(citeRet.enhanced_content, ReferencesHeader)

\* scrapeContent or scrapeArticleContent has returned a success
ScrapeReturned(kind) == scpc = kind /\ ~scrRet.threw /\ scrRet.ret.success

\* the page was opened and read: newPage, goto, waitForSelector and
\* evaluate all resolved
PageRead == ~scrInput.env.newPage.thrown /\ scrInput.env.stage = "none"

\* C15: scrapeContent returns a body of more than 10,000 characters cut to its
\* first 10,000 characters followed by '...', and a body of 10,000 characters
\* or fewer unchanged.
C15_Truncation ==
  ScrapeReturned("reference done") =>
     LET length == scrInput.page.length
         content == scrRet.ret.data.content
     IN  /\ length > 10000 => content = [chars |-> 10000, ellipsis |-> TRUE]
         /\ length <= 10000 => content = [chars |-> length, ellipsis |-> FALSE]

\* a body of 10,001 characters comes back as 10,000 characters and '...'
C15_Witness ==
  /\ ScrapeReturned("reference done")
  /\ scrInput.page.length = 10001
  /\ scrRet.ret.data.content.ellipsis

LiveProcs == {i \in DOMAIN procs : procs[i].live}

PagesOfLastCall == (Len(lastCall.before.pages) + 1)..Len(pages)

\* C18: every page created on behalf of getLastPageUrl, extractArticleLinks,
\* scrapeArticleContent, scrapeContent or searchArticleTitle is closed by the
\* time the operation returns or throws.
C18_NoPageLeftOpen ==
  lastCall.op \in PageOps => \A p \in PagesOfLastCall : ~pages[p].open

OpenPages == {p \in DOMAIN pages : pages[p].open}

\* C21: during a run the items are processed one at a time, each page-scoped
\* operation ending before the next one starts, and at most one page context
\* is open at any moment.
C21_OnePageAtATime ==
  mpc \notin {"idle", "settled"} => Cardinality(OpenPages) <= 1

\* the message of the error a failed POST /articles raises in storeArticle:
\* `axiosError.response?.data?.message || axiosError.message || 'Unknown error'`
postErrorMessage(post) ==
  IF post = "conflict" THEN "Article with this source URL already exists"
  ELSE IF post = "network" THEN "Network Error"
  ELSE ""

\* the reasons for which a store can fail
StoreFailureReasons == {postErrorMessage(post) : post \in PostOutcomes \ {"created"}}

\* C22: for every item that fails during a run, what is reported to the caller
\* keeps the item together with the message of the error that occurred,
\* never only a generic message.
C22_FailureReasonsPreserved ==
  \A i \in 1..Len(storeResult.failed) :
     storeResult.failed[i].error \in StoreFailureReasons

\* the response to a create-enhanced request that names no stored article
NotFoundSignal == AppError("Original article not found", 404, "Not Found")

\* the response to a create-enhanced request for an article that has an
\* enhanced record
ConflictSignal ==
  AppError("Enhanced article already exists for this article", 400, "Validation Error")

TablesUnchanged ==
  /\ dbArticles = lastReq.before.articles
  /\ dbEnhanced = lastReq.before.enhanced

\* C23: after any requests to create articles, delete articles and create
\* enhanced records, no original article id has two enhanced records and
\* every enhanced record names a stored article; a create-enhanced request
\* for an id that names no article is answered with the not-found response,
\* one for an article that has an enhanced record with the conflict
\* response, and neither changes the tables.
C23_EnhancedRecords ==
  /\ \A e1 \in dbEnhanced, e2 \in dbEnhanced :
        e1.original_article_id = e2.original_article_id => e1 = e2
  /\ \A e \in dbEnhanced : \E r \in dbArticles : r.id = e.original_article_id
  /\ NotFoundSignal # ConflictSignal
  /\ (lastReq.op = "createEnhanced" /\ lastReq.id > 0) =>
       /\ ~existsById(lastReq.before, lastReq.id) =>
            (lastReq.res = NotFoundSignal /\ TablesUnchanged)
       /\ (existsById(lastReq.before, lastReq.id)
             /\ existsByOriginalArticleId(lastReq.before, lastReq.id)) =>
            (lastReq.res = ConflictSignal /\ TablesUnchanged)
       /\ (existsById(lastReq.before, lastReq.id)
             /\ ~existsByOriginalArticleId(lastReq.before, lastReq.id)) =>
            lastReq.res.status = 201

\* a second create-enhanced for the same article was refused, and a
\* create-enhanced for a deleted article was possible before
C23_Witness ==
  /\ lastReq.op = "createEnhanced"
  /\ lastReq.res = ConflictSignal
  /\ \E e \in dbEnhanced : e.original_article_id = lastReq.id
  /\ \E id \in everStored : ~existsById(Db, id)

\* C24: every article ArticleModel.create returns has a positive id that no
\* article stored before it had, also when articles were deleted in between;
\* a deleted article is not found by id any more, and deleting it again
\* reports false.
C24_IdsNeverReused ==
  /\ (lastReq.op = "create" /\ lastReq.res.status = 201) =>
       /\ lastReq.row.id > 0
       /\ lastReq.row.id \notin lastReq.stored
       /\ findById(Db, lastReq.row.id) = lastReq.row
  /\ (lastReq.op = "delete" /\ lastReq.deleted) =>
       /\ findById(Db, lastReq.id) = NoRow
       /\ ~ArticleModel_delete(Db, lastReq.id).deleted
  /\ (lastReq.op = "delete" /\ ~existsById(lastReq.before, lastReq.id)) =>
       (~lastReq.deleted /\ TablesUnchanged)
  /\ \A id \in everStored \ RowIds(dbArticles) : findById(Db, id) = NoRow

\* an article was created after the newest article before it had been deleted
C24_Witness ==
  /\ lastReq.op = "create"
  /\ lastReq.res.status = 201
  /\ lastReq.row.id > 1
  /\ (lastReq.row.id - 1) \in lastReq.stored
  /\ ~existsById(lastReq.before, lastReq.row.id - 1)

\* the links of a listing page that have a URL, in document order
LinksWithUrl(links) == SelectSeq(links, LAMBDA l : l.url # <<>>)

\* C25: extractArticleLinks(pageUrl, count) returns the last min(count, L) of
\* the L links that have a URL, each resolved to an absolute URL, in document
\* order; for every count >= 0 it returns at most count links.
C25_LastCountLinks ==
  fnOp = "extractArticleLinks" =>
    LET valid == LinksWithUrl(fnIn.articleLinks)
        L == Len(valid)
        k == Min(fnIn.count, L)
    IN /\ Len(fnOut) = k
       /\ Len(fnOut) <= fnIn.count
       /\ \A i \in 1..Len(fnOut) :
            /\ startsWith(fnOut[i].url, http)
            /\ fnOut[i].url \in {valid[L - k + i].url, baseUrl \o valid[L - k + i].url,
                                 baseUrl \o <<"/">> \o valid[L - k + i].url}

\* the candidates of a list whose trimmed text has at least n characters
Meeting(texts, n) == {i \in 1..Len(texts) : Len(trim(texts[i])) >= n}

\* C26: scrapeArticleContent takes as body the first candidate, in selector
\* priority order, whose trimmed text has at least 100 characters and skips
\* the shorter ones; when no candidate has 100 characters, or no title
\* candidate has text, the result is a failure.
C26_BodyMinimumLength ==
  fnOp = "scrapeArticleContent" =>
    LET bodies == Meeting(fnIn.page.contents, 100)
        titles == Meeting(fnIn.page.titles, 1)
    IN IF bodies = {} \/ titles = {}
       THEN ~fnOut.success
       ELSE /\ fnOut.success
            /\ fnOut.data.content =
                 trim(fnIn.page.contents[CHOOSE i \in bodies : \A j \in bodies : i <= j])

\* the pagination links of a listing root: the anchors of the pagination
\* container, or without one the anchors whose href names a page
PaginationLinks(dom) ==
  IF dom.container THEN dom.links
  ELSE SelectSeq(dom.links, LAMBDA l : isPageLink(l.href))

\* a link explicitly marked as the last page
MarkedLast(l) ==
  \/ ContainsIgnoringCase(trim(l.text), last)
  \/ trim(l.text) \in {<<">", ">">>, <<"»">>}

\* the page number a link shows: in its href, or else as its label
PageNumber(l) ==
  IF pageMatch(l.href) # NaN THEN pageMatch(l.href) ELSE parseInt(trim(l.text))

\* C27: getLastPageUrl returns the listing root URL when the page has no
\* pagination link; otherwise it returns the absolute URL of the pagination
\* link with the highest page number, except that a link marked as the last
\* page ('last', '>>' or '»') is chosen over every numbered link, wherever it
\* stands.
C27_LastPageUrl ==
  fnOp = "getLastPageUrl" =>
    LET links == PaginationLinks(fnIn.dom)
        ix == 1..Len(links)
        marked == {i \in ix : MarkedLast(links[i])}
        numbered == {i \in ix : PageNumber(links[i]) # NaN}
        highest == {i \in numbered :
                      \A j \in numbered : PageNumber(links[j]) <= PageNumber(links[i])}
    IN IF links = <<>> THEN fnOut = blogsUrl
       ELSE IF marked # {} THEN fnOut \in {absoluteUrl(links[i].href) : i \in marked}
       ELSE IF numbered # {} THEN fnOut \in {absoluteUrl(links[i].href) : i \in highest}
       ELSE fnOut = blogsUrl

\* a scrape of one reference that ends in success: every browser step
\* resolves and the page has a title and a text
RefScrapeSucceeds(w) ==
  /\ ~w.env.newPage.thrown
  /\ w.env.stage = "none"
  /\ ~w.env.close.thrown
  /\ w.page.title # <<>>
  /\ w.page.length > 0

\* C28: scrapeMultiple(urls) returns the ReferenceContent of exactly the
\* URLs whose scrape succeeded, in input order, and leaves out the failed
\* ones; a URL that fails (by a failure result or by a rejection) never
\* keeps a later URL from being scraped, and the result is never longer
\* than urls.
C28_ScrapeMultiple ==
  fnOp = "scrapeMultiple" =>
    LET ok == SelectSeq(IndexSeq(Len(fnIn.urls)),
                        LAMBDA i : RefScrapeSucceeds(fnIn.ws[i]))
    IN /\ Len(fnOut) = Len(ok)
       /\ Len(fnOut) <= Len(fnIn.urls)
       /\ \A k \in 1..Len(ok) :
            /\ fnOut[k].source_url = fnIn.urls[ok[k]]
            /\ fnOut[k].title = fnIn.ws[ok[k]].page.title

\* a rejection and a failure result came before a success
C28_Witness ==
  /\ fnOp = "scrapeMultiple"
  /\ Len(fnIn.urls) = 3
  /\ fnIn.ws[1].env.close.thrown
  /\ fnIn.ws[2].env.stage = "goto"
  /\ RefScrapeSucceeds(fnIn.ws[3])
  /\ Len(fnOut) = 1
  /\ fnOut[1].source_url = fnIn.urls[3]

\* the operations invoked so far, without their arguments
OpsInvoked == [i \in 1..Len(oTrace) |-> oTrace[i].op]

\* C29: scrapeOldestArticles goes Idle -> FoundLastPage -> LinksExtracted ->
\* Completed: the links are extracted only once the last-page URL is known
\* and from that URL, articles are scraped only once the links are
\* extracted, each link once and in order, no step is skipped or repeated,
\* and when the last page yields no links the run completes with empty
\* successful and failed lists without opening an article page.
C29_PhaseOrder ==
  /\ opc = "Idle" => oTrace = <<>>
  /\ opc = "FoundLastPage" =>
       (OpsInvoked = <<"getLastPageUrl">> /\ oLastPageUrl # "")
  /\ opc \in {"LinksExtracted", "Completed"} =>
       /\ Len(oTrace) >= 2
       /\ Len(oTrace) - 2 <= Len(oLinks)
       /\ oTrace[1].op = "getLastPageUrl"
       /\ oTrace[2] = Invoked("extractArticleLinks", oLastPageUrl)
       /\ oLastPageUrl # ""
       /\ \A i \in 3..Len(oTrace) :
            oTrace[i] = Invoked("scrapeArticleContent", oLinks[i - 2].url)
  /\ opc = "Completed" =>
       /\ Len(oTrace) - 2 = Len(oLinks)
       /\ Len(oRet.successful) + Len(oRet.failed) = Len(oLinks)
       /\ oLinks = <<>> => (oRet = EmptyResult /\ Len(oTrace) = 2)
  /\ opc = "Threw" =>
       OpsInvoked \in {<<"getLastPageUrl">>, <<"getLastPageUrl", "extractArticleLinks">>}

\* a run over two links, one scraped and one failed, has completed
C29_Witness ==
  /\ opc = "Completed"
  /\ Len(oLinks) = 2
  /\ Len(oRet.successful) = 1
  /\ Len(oRet.failed) = 1
  /\ Len(oTrace) = 4

\* the browser processes that are running
Running == {p \in DOMAIN rprocs : rprocs[p]}

\* C30: when calls of launch() / newPage() overlap, still only one browser
\* process is started, all callers get the same handle, and no running
\* browser is without the handle through which close() releases it.
C30_OverlappingLaunch ==
  /\ Cardinality(Running) <= 1
  /\ \A c1 \in DOMAIN rcallers, c2 \in DOMAIN rcallers :
        (rcallers[c1].pc = "returned" /\ rcallers[c2].pc = "returned")
           => rcallers[c1].handle = rcallers[c2].handle
  /\ Settled => Running \subseteq {rbrowser}

====
